---- MODULE Spec2Model ----
(***************************************************************************)
(* ForceUMI: the data collector (forceumi/collector.py), the Episode       *)
(* container (forceumi/data/episode.py) and the coordinate transforms      *)
(* (forceumi/utils/transforms.py) as a state machine.                      *)
(*                                                                         *)
(* Optional values (Python None) are sequences of length 0 or 1:           *)
(* None == <<>>, a present value v is <<v>>.                               *)
(*                                                                         *)
(* Angles are counted in quarter turns (1 = pi/2), so that every rotation  *)
(* matrix has entries in {-1, 0, 1} and the trigonometry is exact.         *)
(***************************************************************************)
EXTENDS Integers, Sequences, FiniteSets, TLC

\* ------------------------------------------------------------------ bounds
\* thread objects the collector may create before start_episode is cut off
MaxWorkers == 2
\* poll cycles begun over all workers
MaxCycles == 2
\* device reads that return nothing
MaxFailures == 1
\* last value of the wall clock
MaxTime == 1
\* files one session may write (episode0 .. episode<MaxFiles-1>)
MaxFiles == 2
\* warmup_duration (collector.py:34), in clock ticks
WarmupDuration == 1
\* callbacks registered with add_frame_callback before the episode starts
NumCallbacks == 2
\* queue.Queue(maxsize=1), collector.py:71
QueueMaxsize == 1

None == <<>>
Some(v) == <<v>>
Val(o) == o[1]

Workers == 1..MaxWorkers

\* -------------------------------------------------------------- transforms
\* np.cos / np.sin of k quarter turns
Cos(k) ==
  CASE k % 4 = 0 -> 1
    [] k % 4 = 1 -> 0
    [] k % 4 = 2 -> -1
    [] k % 4 = 3 -> 0

Sin(k) ==
  CASE k % 4 = 0 -> 0
    [] k % 4 = 1 -> 1
    [] k % 4 = 2 -> 0
    [] k % 4 = 3 -> -1

\* np.arctan2(y, x) in quarter turns, range (-2, 2]; the arguments met here
\* lie on an axis
Atan2(y, x) ==
  CASE y = 0 /\ x >= 0 -> 0
    [] y > 0 -> 1
    [] y < 0 -> -1
    [] y = 0 /\ x < 0 -> 2

\* np.sqrt on the perfect squares met here
Sqrt(n) == CHOOSE r \in 0..n : r * r = n

\* matrix product A @ B of an n x m and an m x k matrix (tuples of rows)
MatMul(A, B) ==
  [i \in 1..Len(A) |->
     [j \in 1..Len(B[1]) |->
        LET Dot[k \in 0..Len(B)] ==
              IF k = 0 THEN 0 ELSE Dot[k - 1] + A[i][k] * B[k][j]
        IN  Dot[Len(B)]]]

\* R.T
Transpose(A) == [i \in 1..Len(A[1]) |-> [j \in 1..Len(A) |-> A[j][i]]]

\* euler_to_matrix(roll, pitch, yaw): R = R_z @ R_y @ R_x
euler_to_matrix(roll, pitch, yaw) ==
  LET R_x == << <<1, 0, 0>>,
                <<0, Cos(roll), -Sin(roll)>>,
                <<0, Sin(roll), Cos(roll)>> >>
      R_y == << <<Cos(pitch), 0, Sin(pitch)>>,
                <<0, 1, 0>>,
                <<-Sin(pitch), 0, Cos(pitch)>> >>
      R_z == << <<Cos(yaw), -Sin(yaw), 0>>,
                <<Sin(yaw), Cos(yaw), 0>>,
                <<0, 0, 1>> >>
  IN  MatMul(MatMul(R_z, R_y), R_x)

\* matrix_to_euler(R): <<roll, pitch, yaw>>; singular when sy < 1e-6
matrix_to_euler(R) ==
  LET sy == Sqrt(R[1][1] * R[1][1] + R[2][1] * R[2][1])
      singular == sy = 0
  IN  IF ~singular
      THEN << Atan2(R[3][2], R[3][3]), Atan2(-R[3][1], sy), Atan2(R[2][1], R[1][1]) >>
      ELSE << Atan2(-R[2][3], R[2][2]), Atan2(-R[3][1], sy), 0 >>

\* pose_to_matrix(pose): 4x4 homogeneous transform of <<x,y,z,rx,ry,rz>>
pose_to_matrix(pose) ==
  LET R == euler_to_matrix(pose[4], pose[5], pose[6])
  IN  << <<R[1][1], R[1][2], R[1][3], pose[1]>>,
         <<R[2][1], R[2][2], R[2][3], pose[2]>>,
         <<R[3][1], R[3][2], R[3][3], pose[3]>>,
         <<0, 0, 0, 1>> >>

\* the rotation block T[:3, :3]
RotOf(T) == [i \in 1..3 |-> [j \in 1..3 |-> T[i][j]]]

\* integers up to 2^24 in magnitude are float32 values
Float32Exact == 16777216

\* .astype(np.float32) / dtype=np.float32 on a whole number below 2^25 in
\* magnitude: kept up to 2^24; beyond that only even numbers are float32
\* values, and an odd one is rounded to the neighbour with the even mantissa
Float32(n) ==
  LET a == IF n < 0 THEN -n ELSE n
      r == IF a <= Float32Exact \/ a % 2 = 0 THEN a
           ELSE IF (a - 1) % 4 = 0 THEN a - 1 ELSE a + 1
  IN  IF n < 0 THEN -r ELSE r

\* matrix_to_pose(T): a float32 array; the angles are counted in quarter
\* turns and stay as they are
matrix_to_pose(T) ==
  LET e == matrix_to_euler(RotOf(T))
  IN  << Float32(T[1][4]), Float32(T[2][4]), Float32(T[3][4]), e[1], e[2], e[3] >>

\* inverse_transform(T) = [R^T, -R^T t; 0, 1]
inverse_transform(T) ==
  LET Rt == Transpose(RotOf(T))
      t  == << <<T[1][4]>>, <<T[2][4]>>, <<T[3][4]>> >>
      mt == MatMul(Rt, t)
  IN  << <<Rt[1][1], Rt[1][2], Rt[1][3], -mt[1][1]>>,
         <<Rt[2][1], Rt[2][2], Rt[2][3], -mt[2][1]>>,
         <<Rt[3][1], Rt[3][2], Rt[3][3], -mt[3][1]>>,
         <<0, 0, 0, 1>> >>

\* a transform_pose that forgets to invert the reference
transform_pose_no_inverse(pose, reference_pose) ==
  matrix_to_pose(MatMul(pose_to_matrix(reference_pose), pose_to_matrix(pose)))

\* transform_pose(pose, reference_pose) = matrix_to_pose(T_ref^-1 @ T_pose)
transform_pose(pose, reference_pose) ==
  matrix_to_pose(MatMul(inverse_transform(pose_to_matrix(reference_pose)),
                        pose_to_matrix(pose)))

\* relative_pose(pose, reference_pose, preserve_gripper): the result is
\* converted to float32, the gripper value with it
relative_pose(pose, reference_pose, preserve_gripper) ==
  LET has_gripper == Len(pose) = 7
      relative_6d == transform_pose(SubSeq(pose, 1, 6), SubSeq(reference_pose, 1, 6))
  IN  IF has_gripper /\ preserve_gripper
      THEN Append(relative_6d, Float32(pose[7]))
      ELSE relative_6d

\* rotate_frame_z_90_cw(pose, preserve_gripper): theta = -pi/2
rotate_frame_z_90_cw(pose, preserve_gripper) ==
  LET theta == -1
      R == euler_to_matrix(pose[4], pose[5], pose[6])
      R_z_90cw == << <<Cos(theta), -Sin(theta), 0>>,
                     <<Sin(theta), Cos(theta), 0>>,
                     <<0, 0, 1>> >>
      euler_new == matrix_to_euler(MatMul(R_z_90cw, R))
  IN  << pose[2], -pose[1], pose[3],
         euler_new[1], euler_new[2], euler_new[3], pose[7] >>

\* a rotate_frame_z_90_ccw that turns the same way as rotate_frame_z_90_cw
rotate_frame_z_90_ccw_as_cw(pose, preserve_gripper) ==
  LET theta == -1
      R == euler_to_matrix(pose[4], pose[5], pose[6])
      R_z_90ccw == << <<Cos(theta), -Sin(theta), 0>>,
                      <<Sin(theta), Cos(theta), 0>>,
                      <<0, 0, 1>> >>
      euler_new == matrix_to_euler(MatMul(R_z_90ccw, R))
  IN  << -pose[2], pose[1], pose[3],
         euler_new[1], euler_new[2], euler_new[3], pose[7] >>

\* rotate_frame_z_90_ccw(pose, preserve_gripper): theta = +pi/2
rotate_frame_z_90_ccw(pose, preserve_gripper) ==
  LET theta == 1
      R == euler_to_matrix(pose[4], pose[5], pose[6])
      R_z_90ccw == << <<Cos(theta), -Sin(theta), 0>>,
                      <<Sin(theta), Cos(theta), 0>>,
                      <<0, 0, 1>> >>
      euler_new == matrix_to_euler(MatMul(R_z_90ccw, R))
  IN  << -pose[2], pose[1], pose[3],
         euler_new[1], euler_new[2], euler_new[3], pose[7] >>

\* module-level switch, collector.py:20
rotate_to_force_frame(pose, preserve_gripper) ==
  rotate_frame_z_90_cw(pose, preserve_gripper)

\* ----------------------------------------------------------------- Episode
EmptyMetadata ==
  [session_dir |-> None, episode_number |-> None, start_time |-> None,
   end_time |-> None, duration |-> None, num_frames |-> None, fps |-> None]

\* Episode() created at time t (__post_init__ stamps start_time)
NewEpisode(t) ==
  [images |-> <<>>, states |-> <<>>, actions |-> <<>>, forces |-> <<>>,
   timestamps |-> <<>>,
   timestamps_camera |-> <<>>, timestamps_pose |-> <<>>, timestamps_force |-> <<>>,
   metadata |-> EmptyMetadata, start_time |-> t, end_time |-> None]

\* x if x is not None else d
OrElse(x, d) == IF x # None THEN Val(x) ELSE d

\* an add_frame that stores a frame's modalities only when none is missing
add_frame_if_complete(ep, image, state, action, force, timestamp, timestamp_camera, timestamp_pose, timestamp_force) ==
  IF image # None /\ state # None /\ action # None /\ force # None
  THEN [ep EXCEPT
          !.images = Append(@, Val(image)),
          !.timestamps_camera = Append(@, OrElse(timestamp_camera, timestamp)),
          !.states = Append(@, Val(state)),
          !.timestamps_pose = Append(@, OrElse(timestamp_pose, timestamp)),
          !.actions = Append(@, Val(action)),
          !.forces = Append(@, Val(force)),
          !.timestamps_force = Append(@, OrElse(timestamp_force, timestamp)),
          !.timestamps = Append(@, timestamp)]
  ELSE [ep EXCEPT !.timestamps = Append(@, timestamp)]

\* an add_frame that appends every per-sensor timestamp on every call
add_frame_stamping_all(ep, image, state, action, force, timestamp, timestamp_camera, timestamp_pose, timestamp_force) ==
  [ep EXCEPT
     !.images = IF image # None THEN Append(@, Val(image)) ELSE @,
     !.timestamps_camera = Append(@, OrElse(timestamp_camera, timestamp)),
     !.states = IF state # None THEN Append(@, Val(state)) ELSE @,
     !.timestamps_pose = Append(@, OrElse(timestamp_pose, timestamp)),
     !.actions = IF action # None THEN Append(@, Val(action)) ELSE @,
     !.forces = IF force # None THEN Append(@, Val(force)) ELSE @,
     !.timestamps_force = Append(@, OrElse(timestamp_force, timestamp)),
     !.timestamps = Append(@, timestamp)]

\* an add_frame that stores the action only in a frame that has an image
add_frame_action_needs_image(ep, image, state, action, force, timestamp, timestamp_camera, timestamp_pose, timestamp_force) ==
  [ep EXCEPT
     !.images = IF image # None THEN Append(@, Val(image)) ELSE @,
     !.timestamps_camera =
        IF image # None THEN Append(@, OrElse(timestamp_camera, timestamp)) ELSE @,
     !.states = IF state # None THEN Append(@, Val(state)) ELSE @,
     !.timestamps_pose =
        IF state # None THEN Append(@, OrElse(timestamp_pose, timestamp)) ELSE @,
     !.actions = IF action # None /\ image # None THEN Append(@, Val(action)) ELSE @,
     !.forces = IF force # None THEN Append(@, Val(force)) ELSE @,
     !.timestamps_force =
        IF force # None THEN Append(@, OrElse(timestamp_force, timestamp)) ELSE @,
     !.timestamps = Append(@, timestamp)]

\* Episode.add_frame(image, state, action, force, timestamp, timestamp_*)
add_frame(ep, image, state, action, force, timestamp, timestamp_camera, timestamp_pose, timestamp_force) ==
  [ep EXCEPT
     !.images = IF image # None THEN Append(@, Val(image)) ELSE @,
     !.timestamps_camera =
        IF image # None THEN Append(@, OrElse(timestamp_camera, timestamp)) ELSE @,
     !.states = IF state # None THEN Append(@, Val(state)) ELSE @,
     !.timestamps_pose =
        IF state # None THEN Append(@, OrElse(timestamp_pose, timestamp)) ELSE @,
     !.actions = IF action # None THEN Append(@, Val(action)) ELSE @,
     !.forces = IF force # None THEN Append(@, Val(force)) ELSE @,
     !.timestamps_force =
        IF force # None THEN Append(@, OrElse(timestamp_force, timestamp)) ELSE @,
     !.timestamps = Append(@, timestamp)]

\* a finalize that counts the images instead of the loop timestamps
finalize_counting_images(ep, t) ==
  [ep EXCEPT
     !.end_time = Some(t),
     !.metadata = [@ EXCEPT
        !.start_time = Some(ep.start_time),
        !.end_time = Some(t),
        !.duration = Some(t - ep.start_time),
        !.num_frames = Some(Len(ep.images)),
        !.fps = Some(IF t > ep.start_time
                     THEN Len(ep.images) \div (t - ep.start_time)
                     ELSE 0)]]

\* Episode.finalize() at time t; fps is the integer quotient here
finalize(ep, t) ==
  [ep EXCEPT
     !.end_time = Some(t),
     !.metadata = [@ EXCEPT
        !.start_time = Some(ep.start_time),
        !.end_time = Some(t),
        !.duration = Some(t - ep.start_time),
        !.num_frames = Some(Len(ep.timestamps)),
        !.fps = Some(IF t > ep.start_time
                     THEN Len(ep.timestamps) \div (t - ep.start_time)
                     ELSE 0)]]

\* Episode.__len__
EpLen(ep) == Len(ep.timestamps)

\* Episode.to_dict(): per-sensor timestamp keys only when non-empty
to_dict(ep) ==
  [image |-> ep.images, state |-> ep.states, action |-> ep.actions,
   force |-> ep.forces, timestamp |-> ep.timestamps, metadata |-> ep.metadata,
   timestamp_camera |-> IF ep.timestamps_camera # <<>> THEN Some(ep.timestamps_camera) ELSE None,
   timestamp_pose |-> IF ep.timestamps_pose # <<>> THEN Some(ep.timestamps_pose) ELSE None,
   timestamp_force |-> IF ep.timestamps_force # <<>> THEN Some(ep.timestamps_force) ELSE None]

\* the file HDF5Manager.save_episode writes (hdf5_manager.py:63-101), as far
\* as it is kept here: which datasets exist and how long they are (a dataset
\* per non-empty array, None otherwise), and the attributes episode_number
\* and num_frames
FileOf(data) ==
  LET Shape(a) == IF Len(a) > 0 THEN Some(Len(a)) ELSE None
  IN  [image |-> Shape(data.image), state |-> Shape(data.state),
       action |-> Shape(data.action), force |-> Shape(data.force),
       timestamp |-> Shape(data.timestamp),
       timestamp_camera |->
         IF data.timestamp_camera # None THEN Shape(Val(data.timestamp_camera)) ELSE None,
       timestamp_pose |->
         IF data.timestamp_pose # None THEN Shape(Val(data.timestamp_pose)) ELSE None,
       timestamp_force |->
         IF data.timestamp_force # None THEN Shape(Val(data.timestamp_force)) ELSE None,
       attrs |-> [episode_number |-> data.metadata.episode_number,
                  num_frames |-> data.metadata.num_frames]]

\* --------------------------------------------------------------- collector
VARIABLES
  now,                 \* time.time()
  connected,           \* per device: the device exists and is_connected()
  _collecting, _warming_up, _warmup_start_time,
  _collection_thread,  \* None or the thread started last
  _stop_event, _reference_pose,
  _data_queue,         \* queue.Queue(maxsize=1): the items in FIFO order; a
                       \* frame_data dict is kept as the number of the cycle
                       \* that built it and its _warming_up flag
  _session_dir, _episode_counter,
  current_episode,     \* None or the Episode
  files,               \* path -> None or the file written there
  pc, local,           \* per thread: position in _collection_loop, the locals
                       \* of the cycle in progress
  mpc, stop_save,      \* caller of stop_episode: position, its save argument
  ret,                 \* the public call the last step completed and what it
                       \* returned; NoCall after any other step
  cycles,              \* poll cycles begun so far (numbers the frames)
  failures,            \* device reads that returned nothing so far
  last_put,            \* number of the frame handed to put_nowait last
  finalized_by,        \* callers of finalize() on current_episode, in order
  callback_log,        \* the callbacks the cycle that ended in the last step
                       \* invoked, in order, and whether each raised; empty
                       \* after any other step
  player,              \* None, or the EpisodePlayer that was constructed
  configs              \* None, or the dicts of config.py: DEFAULT_CONFIG and
                       \* the Config instances constructed so far

vars == << now, connected, _collecting, _warming_up, _warmup_start_time,
           _collection_thread, _stop_event, _reference_pose, _data_queue,
           _session_dir, _episode_counter, current_episode, files, pc, local,
           mpc, stop_save, ret, cycles, failures, last_put, finalized_by,
           callback_log, player, configs >>

\* the tracked object moves along a fixed trajectory: the pose a read of poll
\* cycle c can return, <<x, y, z, roll, pitch, yaw, gripper>>
Trajectory(c) == << c, 2 * c, 0, 0, 0, c % 4, c % 2 >>

\* which devices are present and connected
DeviceConfigs ==
  { [camera |-> TRUE, pose |-> TRUE, force |-> TRUE],
    [camera |-> FALSE, pose |-> TRUE, force |-> FALSE] }

Paths == (-1)..(MaxFiles - 1)

\* frame_data = {} at the start of a cycle
EmptyFrame ==
  [image |-> None, state |-> None, action |-> None, force |-> None,
   timestamp_camera |-> None, timestamp_pose |-> None, timestamp_force |-> None]

\* `if frame_data:` -- some key has been stored
NonEmpty(fd) == fd.image # None \/ fd.state # None \/ fd.force # None

NoCall == [op |-> "none", value |-> None]

NoLocals == [timestamp |-> 0, timestamp_camera |-> None,
             frame_data |-> EmptyFrame, cycle |-> 0]

\* ------------------------------------------------------------------ Config
\* Python dicts are objects: a dict lives at an address of the heap, and a
\* value stored in a dict is a scalar or a reference to another dict
Scalar(v) == [ref |-> FALSE, v |-> v]
Ref(a) == [ref |-> TRUE, v |-> a]

\* {}
EmptyDict == [k \in {} |-> Scalar(0)]

\* d[k] = v
Put(d, k, v) == [x \in DOMAIN d \cup { k } |-> IF x = k THEN v ELSE d[x]]

\* the address of a dict created next
NewAddress(heap) == Cardinality(DOMAIN heap)

\* the address of the class attribute Config.DEFAULT_CONFIG
DEFAULT_CONFIG == 0

\* config.py:17-53, as far as kept here: the heap once the class is defined.
\* DEFAULT_CONFIG = {"devices": {"camera": {"width": 480}},
\*                   "collector": {"max_fps": 20}}
ImportedHeap ==
  (0 :> [k \in { "devices", "collector" } |->
           IF k = "devices" THEN Ref(1) ELSE Ref(3)])
  @@ (1 :> [k \in { "camera" } |-> Ref(2)])
  @@ (2 :> [k \in { "width" } |-> Scalar(480)])
  @@ (3 :> [k \in { "max_fps" } |-> Scalar(20)])

\* the heap, and per Config instance the address of its self.config
ImportedConfigs == [heap |-> ImportedHeap, instances |-> << >>]

\* dict.copy(): a new dict with the same keys and the same values, the
\* references among them included
copy(heap, a) == heap @@ (NewAddress(heap) :> heap[a])

\* Config.__init__(config_path=None), config.py:55-66
Config_init(c) ==
  [heap |-> copy(c.heap, DEFAULT_CONFIG),
   instances |-> Append(c.instances, NewAddress(c.heap))]

\* the loop of Config.get, config.py:146-154, from value on: None stands for
\* the default argument
RECURSIVE get_from(_, _, _)
get_from(heap, value, keys) ==
  IF keys = << >> THEN Some(value)
  ELSE IF value.ref /\ Head(keys) \in DOMAIN heap[value.v]
       THEN get_from(heap, heap[value.v][Head(keys)], Tail(keys))
       ELSE None

\* Config.get(key) on the instance whose dict is at address a, config.py:134-154
Config_get(heap, a, keys) == get_from(heap, Ref(a), keys)

\* the loop and the final assignment of Config.set, config.py:165-172, with
\* config at address a: the heap afterwards
RECURSIVE set_from(_, _, _, _)
set_from(heap, a, keys, value) ==
  IF Len(keys) = 1
  THEN [heap EXCEPT ![a] = Put(@, keys[1], Scalar(value))]
  ELSE LET k == Head(keys)
           n == NewAddress(heap)
           heap1 == IF k \in DOMAIN heap[a] THEN heap
                    ELSE [heap EXCEPT ![a] = Put(@, k, Ref(n))] @@ (n :> EmptyDict)
       IN  set_from(heap1, heap1[a][k].v, Tail(keys), value)

\* Config.set(key, value) on the instance whose dict is at address a
Config_set(heap, a, keys, value) == set_from(heap, a, keys, value)

\* DataCollector.__init__
CollectorInit ==
  /\ now = 0
  /\ connected \in DeviceConfigs
  /\ _collecting = FALSE
  /\ _warming_up = FALSE
  /\ _warmup_start_time = None
  /\ _collection_thread = None
  /\ _stop_event = FALSE
  /\ _reference_pose = None
  /\ _data_queue = <<>>
  /\ _session_dir = None
  /\ _episode_counter = 0
  /\ current_episode = None
  /\ files = [p \in Paths |-> None]
  /\ pc = [w \in Workers |-> "none"]
  /\ local = [w \in Workers |-> NoLocals]
  /\ mpc = "idle"
  /\ stop_save = None
  /\ ret = NoCall
  /\ cycles = 0
  /\ failures = 0
  /\ last_put = 0
  /\ finalized_by = <<>>
  /\ callback_log = <<>>

\* a collector, no player, and config.py not imported
Init == CollectorInit /\ player = None /\ configs = None

\* the wall clock advances
Tick ==
  /\ callback_log' = <<>>
  /\ UNCHANGED << player, configs >>
  /\ now < MaxTime
  /\ now' = now + 1
  /\ UNCHANGED << connected, _collecting, _warming_up, _warmup_start_time,
                  _collection_thread, _stop_event, _reference_pose, _data_queue,
                  _session_dir, _episode_counter, current_episode, files, pc,
                  local, mpc, stop_save, cycles, failures, last_put,
                  finalized_by >>
  /\ ret' = NoCall

\* a thread object that is not running
FreeThreads == { w \in Workers : pc[w] \in {"none", "done"} }
\* threads inside _collection_loop
Running == { w \in Workers : pc[w] \notin {"none", "done"} }

\* a start_episode that forgot its guard
StartNeverRejected == FALSE

\* collector.py:135: `if self._collecting:` -- the call is rejected
StartRejected == _collecting

\* start_episode(), collector.py:125-169
start_episode ==
  /\ callback_log' = <<>>
  /\ UNCHANGED << player, configs >>
  /\ mpc = "idle"
  /\ IF StartRejected
     THEN /\ ret' = [op |-> "start_episode", value |-> Some(FALSE)]
          /\ UNCHANGED << _collecting, _warming_up, _warmup_start_time,
                          _collection_thread, _stop_event, _reference_pose,
                          _session_dir, _episode_counter, current_episode,
                          pc, local, finalized_by >>
     ELSE /\ FreeThreads # {}
          /\ LET w == CHOOSE x \in FreeThreads : \A y \in FreeThreads : x <= y
                 newdir == _session_dir = None
                 counter == IF newdir THEN 0 ELSE _episode_counter
             IN  /\ _session_dir' = Some("session")
                 /\ _episode_counter' = counter
                 /\ current_episode' =
                      Some([NewEpisode(now) EXCEPT
                              !.metadata.session_dir = Some("session"),
                              !.metadata.episode_number = Some(counter)])
                 /\ _reference_pose' = None
                 /\ _stop_event' = FALSE
                 /\ _collecting' = TRUE
                 /\ _warming_up' = TRUE
                 /\ _warmup_start_time' = Some(now)
                 /\ _collection_thread' = Some(w)
                 /\ pc' = [pc EXCEPT ![w] = "top"]
                 /\ local' = [local EXCEPT ![w] = NoLocals]
                 /\ finalized_by' = <<>>
                 /\ ret' = [op |-> "start_episode", value |-> Some(TRUE)]
  /\ UNCHANGED << now, connected, _data_queue, files, mpc, stop_save, cycles, failures, last_put >>

\* HDF5Manager.save_episode(filepath, data, overwrite=False): the files after
\* the call, and whether it returned True
save_episode(fs, filepath, data) ==
  IF fs[filepath] # None
  THEN [files |-> fs, ok |-> FALSE]
  ELSE [files |-> [fs EXCEPT ![filepath] = Some(FileOf(data))], ok |-> TRUE]

\* the body of save_current_episode(filepath=None), collector.py:217-246, run
\* on Episode ep with finalize() calls so far fb; -1 is the timestamped
\* fallback name
SaveBody(ep, fb) ==
  LET fin == ep.end_time = None
      ep1 == IF fin THEN finalize(ep, now) ELSE ep
      filepath == IF _session_dir = None THEN -1 ELSE _episode_counter
      r == save_episode(files, filepath, to_dict(ep1))
  IN  [episode |-> ep1,
       finalized_by |-> IF fin THEN Append(fb, "save") ELSE fb,
       files |-> r.files,
       counter |-> IF r.ok THEN _episode_counter + 1 ELSE _episode_counter,
       value |-> IF r.ok THEN Some(filepath) ELSE None]

\* save_current_episode(), called by the thread that owns the collector
save_current_episode ==
  /\ callback_log' = <<>>
  /\ UNCHANGED << player, configs >>
  /\ mpc = "idle"
  /\ _episode_counter < MaxFiles
  /\ IF current_episode = None
     THEN /\ ret' = [op |-> "save_current_episode", value |-> None]
          /\ UNCHANGED << current_episode, finalized_by, files, _episode_counter >>
     ELSE LET b == SaveBody(Val(current_episode), finalized_by)
          IN  /\ current_episode' = Some(b.episode)
              /\ finalized_by' = b.finalized_by
              /\ files' = b.files
              /\ _episode_counter' = b.counter
              /\ ret' = [op |-> "save_current_episode", value |-> b.value]
  /\ UNCHANGED << now, connected, _collecting, _warming_up, _warmup_start_time,
                  _collection_thread, _stop_event, _reference_pose, _data_queue,
                  _session_dir, pc, local, mpc, stop_save, cycles, failures,
                  last_put >>

\* stop_episode(save), collector.py:181-190: the guard, the stop flag, and
\* the entry into join(timeout=2.0)
stop_episode_begin(save) ==
  /\ callback_log' = <<>>
  /\ UNCHANGED << player, configs >>
  /\ mpc = "idle"
  /\ _episode_counter < MaxFiles
  /\ IF ~_collecting
     THEN /\ ret' = [op |-> "stop_episode", value |-> None]
          /\ UNCHANGED << _stop_event, _collecting, mpc, stop_save >>
     ELSE /\ _stop_event' = TRUE
          /\ _collecting' = FALSE
          /\ mpc' = "join"
          /\ stop_save' = save
          /\ ret' = NoCall
  /\ UNCHANGED << now, connected, _warming_up, _warmup_start_time,
                  _collection_thread, _reference_pose, _data_queue,
                  _session_dir, _episode_counter, current_episode, files, pc,
                  local, cycles, failures, last_put, finalized_by >>

\* device read() calls a thread can be blocked in
ReadPcs == {"cam_read", "pose_read", "force_read"}

\* auto_save, collector.py:32
auto_save == TRUE

\* a join() without a timeout: it returns only when the thread has exited
JoinWithoutTimeout ==
  \/ _collection_thread = None
  \/ pc[Val(_collection_thread)] = "done"

\* join() returns when the thread has exited, or after 2.0 s while the thread
\* is still blocked in a device read
JoinReturns ==
  \/ _collection_thread = None
  \/ pc[Val(_collection_thread)] = "done"
  \/ pc[Val(_collection_thread)] \in ReadPcs

\* stop_episode, collector.py:190-203: join returns, finalize, save
stop_episode_finish ==
  /\ callback_log' = <<>>
  /\ UNCHANGED << player, configs >>
  /\ mpc = "join"
  /\ JoinReturns
  /\ LET ep == finalize(Val(current_episode), now)
         fb == Append(finalized_by, "stop")
         save == IF stop_save # None THEN Val(stop_save) ELSE auto_save
     IN  IF save
         THEN LET b == SaveBody(ep, fb)
              IN  /\ current_episode' = Some(b.episode)
                  /\ finalized_by' = b.finalized_by
                  /\ files' = b.files
                  /\ _episode_counter' = b.counter
                  /\ ret' = [op |-> "stop_episode", value |-> b.value]
         ELSE /\ current_episode' = Some(ep)
              /\ finalized_by' = fb
              /\ ret' = [op |-> "stop_episode", value |-> None]
              /\ UNCHANGED << files, _episode_counter >>
  /\ mpc' = "idle"
  /\ stop_save' = None
  /\ UNCHANGED << now, connected, _collecting, _warming_up, _warmup_start_time,
                  _collection_thread, _stop_event, _reference_pose, _data_queue,
                  _session_dir, pc, local, cycles, failures, last_put >>

\* queue.Queue.put_nowait: the queue after the call, and whether it raised Full
put_nowait(q, item) ==
  IF Len(q) >= QueueMaxsize
  THEN [queue |-> q, full |-> TRUE]
  ELSE [queue |-> Append(q, item), full |-> FALSE]

\* get_latest_frame(), collector.py:370-390: drain the queue, keep the last
get_latest_frame ==
  /\ callback_log' = <<>>
  /\ UNCHANGED << player, configs >>
  /\ ret' = [op |-> "get_latest_frame",
              value |-> IF _data_queue = <<>> THEN None
                        ELSE Some(_data_queue[Len(_data_queue)])]
  /\ _data_queue' = <<>>
  /\ UNCHANGED << now, connected, _collecting, _warming_up, _warmup_start_time,
                  _collection_thread, _stop_event, _reference_pose,
                  _session_dir, _episode_counter, current_episode, files, pc,
                  local, mpc, stop_save, cycles, failures, last_put, finalized_by >>

\* where _collection_loop goes after each device block
AfterPose == IF connected.force THEN "force_read" ELSE "finish"
AfterCamera == IF connected.pose THEN "pose_read" ELSE AfterPose
AfterTop == IF connected.camera THEN "cam_read" ELSE AfterCamera

\* a device read() returning value v: nothing (None) counts as a failure
ReadOutcome(v) ==
  /\ v = None => failures < MaxFailures
  /\ failures' = IF v = None THEN failures + 1 ELSE failures

\* collector.py:252-270: the stop test, the warm-up test, the loop timestamp,
\* and the camera timestamp taken on entry to camera.read()
loop_top(w) ==
  /\ callback_log' = <<>>
  /\ UNCHANGED << player, configs >>
  /\ pc[w] = "top"
  /\ IF _stop_event
     THEN /\ pc' = [pc EXCEPT ![w] = "done"]
          /\ UNCHANGED << _warming_up, local, cycles >>
     ELSE /\ cycles < MaxCycles
          /\ cycles' = cycles + 1
          /\ _warming_up' =
               IF _warming_up /\ now - Val(_warmup_start_time) >= WarmupDuration
               THEN FALSE ELSE _warming_up
          /\ local' = [local EXCEPT ![w] =
               [timestamp |-> now,
                timestamp_camera |-> IF connected.camera THEN Some(now) ELSE None,
                frame_data |-> EmptyFrame,
                cycle |-> cycles + 1]]
          /\ pc' = [pc EXCEPT ![w] = AfterTop]
  /\ ret' = NoCall
  /\ UNCHANGED << now, connected, _collecting, _warmup_start_time,
                  _collection_thread, _stop_event, _reference_pose, _data_queue,
                  _session_dir, _episode_counter, current_episode, files, mpc,
                  stop_save, failures, last_put, finalized_by >>

\* collector.py:270-273: camera.read() returns image (None: nothing)
camera_read(w, image) ==
  /\ callback_log' = <<>>
  /\ UNCHANGED << player, configs >>
  /\ pc[w] = "cam_read"
  /\ ReadOutcome(image)
  /\ local' = [local EXCEPT ![w].frame_data =
       IF image # None
       THEN [@ EXCEPT !.image = image,
                      !.timestamp_camera = local[w].timestamp_camera]
       ELSE @]
  /\ pc' = [pc EXCEPT ![w] = AfterCamera]
  /\ ret' = NoCall
  /\ UNCHANGED << now, connected, _collecting, _warming_up, _warmup_start_time,
                  _collection_thread, _stop_event, _reference_pose, _data_queue,
                  _session_dir, _episode_counter, current_episode, files, mpc,
                  stop_save, cycles, last_put, finalized_by >>

\* a pose stamp taken at the start of the cycle instead
timestamp_pose_at_start(w) == local[w].timestamp

\* collector.py:279: timestamp_pose = time.time(), after the read returned
timestamp_pose(w) == now

\* collector.py:314: timestamp_force = time.time(), after the read returned
timestamp_force(w) == now

\* collector.py:291-296: the action of the frame that sets the reference
first_action(state) ==
  rotate_to_force_frame(<< 0, 0, 0, 0, 0, 0, state[7] >>, TRUE)

\* collector.py:302-305: the action of a later frame
later_action(state, reference) ==
  rotate_to_force_frame(relative_pose(state, reference, TRUE), TRUE)

\* collector.py:278-287 and 300-307: pose_sensor.read() returns state (None:
\* nothing); after warm-up the thread tests _reference_pose, and with a
\* reference in place derives the action from it
pose_read(w, state) ==
  /\ callback_log' = <<>>
  /\ UNCHANGED << player, configs >>
  /\ pc[w] = "pose_read"
  /\ state # None => state = Some(Trajectory(local[w].cycle))
  /\ ReadOutcome(state)
  /\ IF state = None
     THEN /\ UNCHANGED local
          /\ pc' = [pc EXCEPT ![w] = AfterPose]
     ELSE LET fd == [local[w].frame_data EXCEPT
                       !.state = state, !.timestamp_pose = Some(timestamp_pose(w))]
          IN  IF _warming_up
              THEN /\ local' = [local EXCEPT ![w].frame_data = fd]
                   /\ pc' = [pc EXCEPT ![w] = AfterPose]
              ELSE IF _reference_pose = None
              THEN /\ local' = [local EXCEPT ![w].frame_data = fd]
                   /\ pc' = [pc EXCEPT ![w] = "set_reference"]
              ELSE /\ local' = [local EXCEPT ![w].frame_data =
                        [fd EXCEPT !.action =
                           Some(later_action(Val(state), Val(_reference_pose)))]]
                   /\ pc' = [pc EXCEPT ![w] = AfterPose]
  /\ ret' = NoCall
  /\ UNCHANGED << now, connected, _collecting, _warming_up, _warmup_start_time,
                  _collection_thread, _stop_event, _reference_pose, _data_queue,
                  _session_dir, _episode_counter, current_episode, files, mpc,
                  stop_save, cycles, last_put, finalized_by >>

\* collector.py:288-299: the thread found no reference: the state becomes
\* the reference and the frame gets the first action
set_reference(w) ==
  /\ callback_log' = <<>>
  /\ UNCHANGED << player, configs >>
  /\ pc[w] = "set_reference"
  /\ LET state == Val(local[w].frame_data.state)
     IN  /\ _reference_pose' = Some(state)
         /\ local' = [local EXCEPT ![w].frame_data.action =
                        Some(first_action(state))]
  /\ pc' = [pc EXCEPT ![w] = AfterPose]
  /\ ret' = NoCall
  /\ UNCHANGED << now, connected, _collecting, _warming_up, _warmup_start_time,
                  _collection_thread, _stop_event, _data_queue,
                  _session_dir, _episode_counter, current_episode, files, mpc,
                  stop_save, cycles, failures, last_put, finalized_by >>

\* collector.py:313-317: force_sensor.read() returns force (None: nothing)
force_read(w, force) ==
  /\ callback_log' = <<>>
  /\ UNCHANGED << player, configs >>
  /\ pc[w] = "force_read"
  /\ ReadOutcome(force)
  /\ local' = [local EXCEPT ![w].frame_data =
       IF force # None
       THEN [@ EXCEPT !.force = force, !.timestamp_force = Some(timestamp_force(w))]
       ELSE @]
  /\ pc' = [pc EXCEPT ![w] = "finish"]
  /\ ret' = NoCall
  /\ UNCHANGED << now, connected, _collecting, _warming_up, _warmup_start_time,
                  _collection_thread, _stop_event, _reference_pose, _data_queue,
                  _session_dir, _episode_counter, current_episode, files, mpc,
                  stop_save, cycles, last_put, finalized_by >>

\* a loop that also skips the episode when the hand-off queue is full
SaveFrameIfRoom == ~_warming_up /\ Len(_data_queue) < QueueMaxsize

\* collector.py:321: `if not self._warming_up:` -- the frame is saved
SaveFrame == ~_warming_up

\* collector.py:320-332: the episode after the frame of thread w is offered
append_frame(w) ==
  LET fd == local[w].frame_data
  IN
  IF SaveFrame
  THEN Some(add_frame(Val(current_episode), fd.image, fd.state, fd.action,
                      fd.force, local[w].timestamp, fd.timestamp_camera,
                      fd.timestamp_pose, fd.timestamp_force))
  ELSE current_episode

\* the callbacks registered with add_frame_callback, in registration order
_frame_callbacks == [i \in 1..NumCallbacks |-> i]

\* a loop over the callbacks that an exception leaves
invoke_until_raise(raises) ==
  LET all == [i \in 1..Len(_frame_callbacks) |->
                [callback |-> _frame_callbacks[i],
                 raised |-> _frame_callbacks[i] \in raises]]
      bad == { i \in 1..Len(all) : all[i].raised }
  IN  IF bad = {} THEN all
      ELSE SubSeq(all, 1, CHOOSE i \in bad : \A j \in bad : i <= j)

\* collector.py:343-347: each callback is called inside its own try/except
\* Exception, so every callback is invoked whether or not an earlier one
\* raised; raises are the callbacks that raise on this frame
invoke_callbacks(raises) ==
  [i \in 1..Len(_frame_callbacks) |->
     [callback |-> _frame_callbacks[i],
      raised |-> _frame_callbacks[i] \in raises]]

\* collector.py:319-353: `if frame_data:` add the frame to the episode unless
\* warming up, flag it, put_nowait it (Full is swallowed), call the
\* callbacks; then sleep.  The locals are dead until the next cycle
\* overwrites them and are cleared here.
loop_finish(w) ==
  /\ pc[w] = "finish"
  /\ UNCHANGED << player, configs >>
  /\ IF NonEmpty(local[w].frame_data)
     THEN LET r == put_nowait(_data_queue, [cycle |-> local[w].cycle,
                                                    warming_up |-> _warming_up])
          IN  /\ current_episode' = append_frame(w)
              /\ _data_queue' = r.queue
              /\ last_put' = local[w].cycle
              /\ \E raises \in SUBSET { _frame_callbacks[i] : i \in 1..Len(_frame_callbacks) } :
                    callback_log' = invoke_callbacks(raises)
     ELSE /\ callback_log' = <<>>
          /\ UNCHANGED << current_episode, _data_queue, last_put >>
  /\ local' = [local EXCEPT ![w] = NoLocals]
  /\ pc' = [pc EXCEPT ![w] = "top"]
  /\ ret' = NoCall
  /\ UNCHANGED << now, connected, _collecting, _warming_up, _warmup_start_time,
                  _collection_thread, _stop_event, _reference_pose,
                  _session_dir, _episode_counter, files, mpc,
                  stop_save, cycles, failures, finalized_by >>

\* what the reads can return
Images == { None, Some("img") }
States == { None } \cup { Some(Trajectory(c)) : c \in 1..MaxCycles }
Forces == { None, Some("f") }
\* the save argument of stop_episode (None: auto_save decides)
SaveArgs == { None, Some(FALSE) }

Next ==
  \/ Tick
  \/ start_episode
  \/ \E save \in SaveArgs : stop_episode_begin(save)
  \/ stop_episode_finish
  \/ save_current_episode
  \/ get_latest_frame
  \/ \E w \in Workers : loop_top(w)
  \/ \E w \in Workers, image \in Images : camera_read(w, image)
  \/ \E w \in Workers, state \in States : pose_read(w, state)
  \/ \E w \in Workers : set_reference(w)
  \/ \E w \in Workers, force \in Forces : force_read(w, force)
  \/ \E w \in Workers : loop_finish(w)

Spec == Init /\ [][Next]_vars

\* ------------------------------------------------------------------ player
\* frames in a recording that is played back
MaxFrames == 2
\* the host loop calls update() before this much time has passed since the
\* anchor, while playing
MaxLag == 4
\* last value of the wall clock during playback
PlayerMaxTime == MaxFrames * MaxLag

\* clock units in a second: timestamps and time.time() are whole units here
UnitsPerSecond == 60
\* player.py:230, in tenths: the speed is kept within 0.1 .. 10.0
MinSpeed == 1
MaxSpeed == 100
\* player.py:46, 51: playback_speed = 1.0 (in tenths), target_fps = 30
DefaultSpeed == 10
DefaultFps == 30

Max(a, b) == IF a >= b THEN a ELSE b
Min(a, b) == IF a <= b THEN a ELSE b

\* what one poll cycle of a recording obtained: everything, no pose (and so no
\* action), or no image
CycleKinds ==
  { [image |-> TRUE, state |-> TRUE, force |-> TRUE],
    [image |-> TRUE, state |-> FALSE, force |-> TRUE],
    [image |-> FALSE, state |-> TRUE, force |-> TRUE] }

\* time between the loop timestamps of two successive cycles
Steps == { 2, 4 }

\* recordings: per cycle its kind and the time since the cycle before
Recordings ==
  { r \in UNION { [1..n -> [kind : CycleKinds, step : Steps]] : n \in 1..MaxFrames } :
      r[1].step = 2 }

\* the Episode the collection loop builds over the first n cycles of
\* recording r: an array entry is the number of the cycle it was read in
RECURSIVE Recorded(_, _)
Recorded(r, n) ==
  IF n = 0 THEN NewEpisode(0)
  ELSE LET ep == Recorded(r, n - 1)
           t == IF n = 1 THEN 0 ELSE ep.timestamps[n - 1] + r[n].step
           k == r[n].kind
       IN  add_frame(ep,
                     IF k.image THEN Some(n) ELSE None,
                     IF k.state THEN Some(n) ELSE None,
                     IF k.state THEN Some(n) ELSE None,
                     IF k.force THEN Some(n) ELSE None,
                     t, Some(t), Some(t), Some(t))

\* hdf5_manager.py:63-85: a dataset is created for a main key only if its
\* array is not empty
Dataset(a) == IF Len(a) > 0 THEN Some(a) ELSE None

\* the file save_episode writes for data, as far as the player reads it: the
\* five main datasets and the fps attribute
EpisodeFile(data, fps) ==
  [image |-> Dataset(data.image), state |-> Dataset(data.state),
   action |-> Dataset(data.action), force |-> Dataset(data.force),
   timestamp |-> Dataset(data.timestamp), fps |-> fps]

\* the fps attribute of a file: absent, or 15
FpsAttrs == { None, Some(15) }

EpisodeFiles ==
  { EpisodeFile(to_dict(Recorded(r, Len(r))), fps) :
      r \in Recordings, fps \in FpsAttrs }

\* EpisodePlayer.__init__ and _load_episode on file f (player.py:24-120)
_load_episode(f) ==
  LET nodata == f.image = None /\ f.state = None /\ f.force = None
  IN  [images |-> f.image, states |-> f.state, actions |-> f.action,
       forces |-> f.force, timestamps |-> f.timestamp,
       current_frame |-> 0,
       total_frames |-> IF f.image # None THEN Len(Val(f.image))
                        ELSE IF f.state # None THEN Len(Val(f.state))
                        ELSE IF f.force # None THEN Len(Val(f.force))
                        ELSE 0,
       is_playing |-> FALSE, playback_speed |-> DefaultSpeed, loop |-> FALSE,
       last_frame_time |-> 0,
       target_fps |-> IF ~nodata /\ f.fps # None THEN Val(f.fps) ELSE DefaultFps]

\* a clamp that forgets the upper end
clamp_frame_below(frame_idx, total_frames) == Max(0, frame_idx)

\* player.py:144, 210: max(0, min(frame_idx, self.total_frames - 1))
clamp_frame(frame_idx, total_frames) == Max(0, Min(frame_idx, total_frames - 1))

\* the keys get_frame fills, in the order it fills them
FrameKeys == << "image", "state", "action", "force", "timestamp" >>

ArrayOf(p, key) ==
  CASE key = "image" -> p.images
    [] key = "state" -> p.states
    [] key = "action" -> p.actions
    [] key = "force" -> p.forces
    [] key = "timestamp" -> p.timestamps

\* get_frame(frame_idx), player.py:140-177: the dict returned, as its keys
\* and their values.  Indexing an array beyond its end raises IndexError,
\* which is caught: the keys not yet filled stay out of the dict.
get_frame(p, frame_idx) ==
  LET idx == clamp_frame(IF frame_idx = None THEN p.current_frame ELSE Val(frame_idx),
                         p.total_frames)
      raises == { k \in 1..Len(FrameKeys) :
                    /\ ArrayOf(p, FrameKeys[k]) # None
                    /\ idx + 1 > Len(Val(ArrayOf(p, FrameKeys[k]))) }
      stop == IF raises = {} THEN Len(FrameKeys) + 1
              ELSE CHOOSE k \in raises : \A j \in raises : k <= j
      Field(k) == IF k < stop /\ ArrayOf(p, FrameKeys[k]) # None
                  THEN Some(Val(ArrayOf(p, FrameKeys[k]))[idx + 1])
                  ELSE None
  IN  [frame_idx |-> idx,
       keys |-> { FrameKeys[k] : k \in 1..(stop - 1) },
       image |-> Field(1), state |-> Field(2), action |-> Field(3),
       force |-> Field(4), timestamp |-> Field(5)]

\* play() at time t, player.py:179-183
play(p, t) == [p EXCEPT !.is_playing = TRUE, !.last_frame_time = t]

\* pause(), player.py:185-188
pause(p) == [p EXCEPT !.is_playing = FALSE]

\* toggle_play_pause() at time t, player.py:190-195
toggle_play_pause(p, t) == IF p.is_playing THEN pause(p) ELSE play(p, t)

\* stop(), player.py:197-201
stop(p) == [p EXCEPT !.is_playing = FALSE, !.current_frame = 0]

\* seek(frame_idx) at time t, player.py:203-212
seek(p, frame_idx, t) ==
  [p EXCEPT !.current_frame = clamp_frame(frame_idx, p.total_frames),
            !.last_frame_time = t]

\* seek_relative(delta_frames) at time t, player.py:214-221
seek_relative(p, delta_frames, t) == seek(p, p.current_frame + delta_frames, t)

\* a set_speed that clamps at the lower end only
set_speed_floor_only(p, speed) ==
  [p EXCEPT !.playback_speed = Max(MinSpeed, speed)]

\* set_speed(speed), player.py:223-231, speeds in tenths
set_speed(p, speed) ==
  [p EXCEPT !.playback_speed = Max(MinSpeed, Min(speed, MaxSpeed))]

\* set_loop(loop), player.py:233-241
set_loop(p, loop) == [p EXCEPT !.loop = loop]

\* a[i] of Python, where a negative index counts from the end
PyIndex(a, i) == IF i < 0 THEN a[Len(a) + i + 1] ELSE a[i + 1]

\* player.py:262-268: the interval update() waits for at the current frame
frame_interval(p) ==
  IF p.timestamps # None /\ p.current_frame < Len(Val(p.timestamps)) - 1
  THEN ((PyIndex(Val(p.timestamps), p.current_frame + 1)
           - PyIndex(Val(p.timestamps), p.current_frame)) * 10) \div p.playback_speed
  ELSE ((UnitsPerSecond \div p.target_fps) * 10) \div p.playback_speed

\* an anchor that is always set to the current time
anchor_at_now(last_frame_time, interval, current_time) == current_time

\* player.py:273-277: the anchor after an emission
next_anchor(last_frame_time, interval, current_time) ==
  IF current_time - (last_frame_time + interval) > interval * 2
  THEN current_time
  ELSE last_frame_time + interval

\* an end of episode that loops whatever the loop flag says
end_of_episode_looping(p, t) ==
  IF p.current_frame >= p.total_frames
  THEN [p EXCEPT !.current_frame = 0, !.last_frame_time = t]
  ELSE p

\* an end of episode that pauses whatever the loop flag says
end_of_episode_pausing(p, t) ==
  IF p.current_frame >= p.total_frames
  THEN [pause(p) EXCEPT !.current_frame = p.total_frames - 1]
  ELSE p

\* player.py:284-293: the end-of-episode check after current_frame += 1
end_of_episode(p, t) ==
  IF p.current_frame >= p.total_frames
  THEN IF p.loop
       THEN [p EXCEPT !.current_frame = 0, !.last_frame_time = t]
       ELSE [pause(p) EXCEPT !.current_frame = p.total_frames - 1]
  ELSE p

\* an update() that advances first and emits the frame it arrives at
update_emitting_after_advance(p, t) ==
  IF ~p.is_playing THEN [player |-> p, value |-> None]
  ELSE LET interval == frame_interval(p)
       IN  IF t - p.last_frame_time >= interval
           THEN LET p1 == [p EXCEPT !.last_frame_time =
                             next_anchor(p.last_frame_time, interval, t)]
                    p2 == [p1 EXCEPT !.current_frame = @ + 1]
                    frame_data == get_frame(p2, Some(p2.current_frame))
                IN  [player |-> end_of_episode(p2, t), value |-> Some(frame_data)]
           ELSE [player |-> p, value |-> None]

\* update() at time t, player.py:243-297: the player after the call and what
\* the call returns
update(p, t) ==
  IF ~p.is_playing THEN [player |-> p, value |-> None]
  ELSE LET interval == frame_interval(p)
       IN  IF t - p.last_frame_time >= interval
           THEN LET p1 == [p EXCEPT !.last_frame_time =
                             next_anchor(p.last_frame_time, interval, t)]
                    frame_data == get_frame(p1, Some(p1.current_frame))
                    p2 == [p1 EXCEPT !.current_frame = @ + 1]
                IN  [player |-> end_of_episode(p2, t), value |-> Some(frame_data)]
           ELSE [player |-> p, value |-> None]

\* everything of the collector but the clock and ret
collector_vars ==
  << connected, _collecting, _warming_up, _warmup_start_time,
     _collection_thread, _stop_event, _reference_pose, _data_queue,
     _session_dir, _episode_counter, current_episode, files, pc, local, mpc,
     stop_save, cycles, failures, last_put, finalized_by, callback_log,
     configs >>

\* a player method returns value; it touches nothing but the player
Returned(op, value) ==
  /\ ret' = [op |-> op, value |-> value]
  /\ UNCHANGED << now, collector_vars >>

\* the wall clock advances during playback
PlayerTick ==
  /\ now < PlayerMaxTime
  /\ now' = now + 1
  /\ ret' = NoCall
  /\ UNCHANGED << player, collector_vars >>

\* the wall clock advances while a host loop polls update() often enough
HostTick ==
  /\ player.is_playing => now - player.last_frame_time < MaxLag
  /\ PlayerTick

\* the calls of the player's methods, at the current time
Play ==
  /\ player' = play(player, now)
  /\ Returned("play", None)

Pause ==
  /\ player' = pause(player)
  /\ Returned("pause", None)

TogglePlayPause ==
  /\ player' = toggle_play_pause(player, now)
  /\ Returned("toggle_play_pause", None)

Stop ==
  /\ player' = stop(player)
  /\ Returned("stop", None)

Seek(frame_idx) ==
  /\ player' = seek(player, frame_idx, now)
  /\ Returned("seek", None)

SeekRelative(delta_frames) ==
  /\ player' = seek_relative(player, delta_frames, now)
  /\ Returned("seek_relative", None)

SetSpeed(speed) ==
  /\ player' = set_speed(player, speed)
  /\ Returned("set_speed", None)

SetLoop(loop) ==
  /\ player' = set_loop(player, loop)
  /\ Returned("set_loop", None)

GetFrame(frame_idx) ==
  /\ player' = player
  /\ Returned("get_frame", Some(get_frame(player, frame_idx)))

Update ==
  /\ player' = update(player, now).player
  /\ Returned("update", update(player, now).value)

\* arguments of the calls
SeekArgs == { -1, 0, 1, MaxFrames + 1 }
DeltaArgs == { -1, 1, MaxFrames + 1 }
SpeedArgs == { 10, 20 }
FrameArgs == { None } \cup { Some(i) : i \in 0..(MaxFrames - 1) }

\* a player constructed on a recorded file
PlayerInit ==
  /\ CollectorInit
  /\ connected.camera
  /\ player \in { _load_episode(f) : f \in EpisodeFiles }
  /\ configs = None

PlayerNext ==
  \/ PlayerTick
  \/ Play
  \/ Pause
  \/ TogglePlayPause
  \/ Stop
  \/ \E frame_idx \in SeekArgs : Seek(frame_idx)
  \/ \E delta_frames \in DeltaArgs : SeekRelative(delta_frames)
  \/ \E speed \in SpeedArgs : SetSpeed(speed)
  \/ \E loop \in BOOLEAN : SetLoop(loop)
  \/ \E frame_idx \in FrameArgs : GetFrame(frame_idx)
  \/ Update

PlayerSpec == PlayerInit /\ [][PlayerNext]_vars

\* a play-through: play() at frame 0 with loop off, then nothing but update()
\* calls of a host loop while the clock advances
LiveInit ==
  /\ CollectorInit
  /\ connected.camera
  /\ player \in { play(set_speed(_load_episode(f), speed), 0) :
                    f \in EpisodeFiles, speed \in SpeedArgs }
  /\ configs = None

LiveNext == HostTick \/ Update

LiveSpec == LiveInit /\ [][LiveNext]_vars /\ WF_vars(HostTick) /\ WF_vars(Update)

\* -------------------------------------------------------- speed of playback
\* arguments of set_speed below, inside and above 0.1 .. 10.0, in tenths
AnySpeedArgs == { -5, 0, 2, 10, 99, 101, 250 }

\* the transport and speed controls of the player, called in any order
SpeedNext ==
  \/ Play
  \/ Pause
  \/ Stop
  \/ \E frame_idx \in SeekArgs : Seek(frame_idx)
  \/ \E speed \in AnySpeedArgs : SetSpeed(speed)

SpeedSpec == PlayerInit /\ [][SpeedNext]_vars

\* ------------------------------------------------- Episode and HDF5Manager
\* add_frame calls made on one Episode
MaxAdds == 2

\* the file h5py writes for data (hdf5_manager.py:63-101): a dataset for each
\* main key and each per-sensor timestamp key whose array is there and not
\* empty, and the metadata as attributes
H5File(data) ==
  [image |-> Dataset(data.image), state |-> Dataset(data.state),
   action |-> Dataset(data.action), force |-> Dataset(data.force),
   timestamp |-> Dataset(data.timestamp),
   timestamp_camera |->
     IF data.timestamp_camera # None THEN Dataset(Val(data.timestamp_camera)) ELSE None,
   timestamp_pose |->
     IF data.timestamp_pose # None THEN Dataset(Val(data.timestamp_pose)) ELSE None,
   timestamp_force |->
     IF data.timestamp_force # None THEN Dataset(Val(data.timestamp_force)) ELSE None,
   attrs |-> data.metadata]

\* a save_episode that writes whether or not the file exists
save_episode_always_writes(fs, filepath, data, overwrite) ==
  [files |-> [fs EXCEPT ![filepath] = Some(H5File(data))], ok |-> TRUE]

\* HDF5Manager.save_episode(filepath, data, overwrite), hdf5_manager.py:34-108:
\* the files after the call, and what it returned
HDF5Manager_save_episode(fs, filepath, data, overwrite) ==
  IF fs[filepath] # None /\ ~overwrite
  THEN [files |-> fs, ok |-> FALSE]
  ELSE [files |-> [fs EXCEPT ![filepath] = Some(H5File(data))], ok |-> TRUE]

\* a load_episode that fails on a file without one of the main datasets
load_episode_needing_all(fs, filepath) ==
  IF fs[filepath] = None THEN None
  ELSE LET f == Val(fs[filepath])
       IN  IF f.image = None \/ f.state = None \/ f.action = None
              \/ f.force = None \/ f.timestamp = None
           THEN None
           ELSE Some([image |-> Val(f.image), state |-> Val(f.state),
                      action |-> Val(f.action), force |-> Val(f.force),
                      timestamp |-> Val(f.timestamp),
                      timestamp_camera |-> f.timestamp_camera,
                      timestamp_pose |-> f.timestamp_pose,
                      timestamp_force |-> f.timestamp_force,
                      metadata |-> f.attrs])

\* HDF5Manager.load_episode(filepath), hdf5_manager.py:110-153: None for a
\* missing file; a main key without a dataset loads as np.array([]), a
\* per-sensor timestamp key without a dataset stays out of the dict
load_episode(fs, filepath) ==
  IF fs[filepath] = None THEN None
  ELSE LET f == Val(fs[filepath])
       IN  Some([image |-> OrElse(f.image, <<>>), state |-> OrElse(f.state, <<>>),
                 action |-> OrElse(f.action, <<>>), force |-> OrElse(f.force, <<>>),
                 timestamp |-> OrElse(f.timestamp, <<>>),
                 timestamp_camera |-> f.timestamp_camera,
                 timestamp_pose |-> f.timestamp_pose,
                 timestamp_force |-> f.timestamp_force,
                 metadata |-> f.attrs])

\* what one add_frame call carries: a cycle's modalities, or none at all
FrameKinds ==
  CycleKinds \cup { [image |-> FALSE, state |-> FALSE, force |-> FALSE] }

\* paths handed to save_episode and load_episode
DataPaths == { 0, 1 }

\* everything the Episode and the HDF5Manager do not touch
data_rest ==
  << connected, _collecting, _warming_up, _warmup_start_time,
     _collection_thread, _stop_event, _reference_pose, _data_queue,
     _session_dir, _episode_counter, pc, local, mpc, stop_save, cycles,
     failures, last_put, finalized_by, callback_log, player, configs >>

\* Episode(): episode.py:13-36
CreateEpisode ==
  /\ current_episode = None
  /\ current_episode' = Some(NewEpisode(now))
  /\ ret' = [op |-> "Episode", value |-> None]
  /\ UNCHANGED << now, files, data_rest >>

\* episode.add_frame(...) with the modalities of kind k; an array entry is the
\* number of the call; with stamped the per-sensor timestamps are passed,
\* otherwise they default to the loop timestamp
AddFrame(k, stamped) ==
  /\ current_episode # None
  /\ EpLen(Val(current_episode)) < MaxAdds
  /\ LET n == EpLen(Val(current_episode)) + 1
         entry(present) == IF present THEN Some(n) ELSE None
         stamp == IF stamped THEN Some(now) ELSE None
     IN  current_episode' =
           Some(add_frame(Val(current_episode), entry(k.image), entry(k.state),
                          entry(k.state), entry(k.force), now, stamp, stamp, stamp))
  /\ ret' = [op |-> "add_frame", value |-> None]
  /\ UNCHANGED << now, files, data_rest >>

\* episode.finalize()
Finalize ==
  /\ current_episode # None
  /\ current_episode' = Some(finalize(Val(current_episode), now))
  /\ ret' = [op |-> "finalize", value |-> None]
  /\ UNCHANGED << now, files, data_rest >>

\* manager.save_episode(filepath, episode.to_dict(), overwrite)
SaveEpisode(filepath, overwrite) ==
  /\ current_episode # None
  /\ LET r == HDF5Manager_save_episode(files, filepath,
                                       to_dict(Val(current_episode)), overwrite)
     IN  /\ files' = r.files
         /\ ret' = [op |-> "save_episode", value |-> Some(r.ok)]
  /\ UNCHANGED << now, current_episode, data_rest >>

\* manager.load_episode(filepath)
LoadEpisode(filepath) ==
  /\ ret' = [op |-> "load_episode", value |-> load_episode(files, filepath)]
  /\ UNCHANGED << now, current_episode, files, data_rest >>

DataNext ==
  \/ Tick
  \/ CreateEpisode
  \/ \E k \in FrameKinds, stamped \in BOOLEAN : AddFrame(k, stamped)
  \/ Finalize
  \/ \E filepath \in DataPaths, overwrite \in BOOLEAN : SaveEpisode(filepath, overwrite)
  \/ \E filepath \in DataPaths : LoadEpisode(filepath)

DataSpec == Init /\ [][DataNext]_vars

\* ------------------------------------------------- scheduling of the threads
\* a step of some thread that is not inside a device read
ThreadStep ==
  \E w \in Workers : loop_top(w) \/ set_reference(w) \/ loop_finish(w)

\* episodes started and stopped with auto_save while every device read that
\* returns, returns data
StopNext ==
  \/ Tick
  \/ start_episode
  \/ stop_episode_begin(None)
  \/ stop_episode_finish
  \/ \E w \in Workers : loop_top(w)
  \/ \E w \in Workers : camera_read(w, Some("img"))
  \/ \E w \in Workers, pose \in States \ { None } : pose_read(w, pose)
  \/ \E w \in Workers : set_reference(w)
  \/ \E w \in Workers : force_read(w, Some("f"))
  \/ \E w \in Workers : loop_finish(w)

\* the collector with its threads scheduled: while some thread can take a step
\* outside a device read one of them does, and the caller of stop_episode
\* goes on once join() has returned; a device read may block for ever
StopSpec ==
  Init /\ [][StopNext]_vars /\ WF_vars(stop_episode_finish) /\ WF_vars(ThreadStep)

\* ------------------------------------------- convert_forceumi_to_lerobot.py
\* the episode files of the session directory: episode0 .. episode<MaxFiles-1>
SessionPaths == 0..(MaxFiles - 1)

\* find_forceumi_episodes: the paths among the first n that hold a file, in
\* sorted order
RECURSIVE find_forceumi_episodes(_, _)
find_forceumi_episodes(fs, n) ==
  IF n = 0 THEN <<>>
  ELSE LET before == find_forceumi_episodes(fs, n - 1)
       IN  IF fs[n - 1] # None THEN Append(before, n - 1) ELSE before

\* load_forceumi_episode, lines 108-145: f['image'], f['action'] (the
\* converter's states) and f['force']; a missing dataset raises KeyError,
\* which is caught, and the episode comes back as None
load_forceumi_episode(f) ==
  IF f.image = None \/ f.action = None \/ f.force = None
  THEN None
  ELSE Some([images |-> Val(f.image), states |-> Val(f.action),
             forces |-> Val(f.force)])

\* compute_delta_actions, lines 148-174: the action of frame t is made of
\* states[t] and states[t-1], kept here as that pair (0: no frame before)
compute_delta_actions(states) ==
  [t \in 1..Len(states) |-> << IF t = 1 THEN 0 ELSE states[t - 1], states[t] >>]

\* lines 372-376: T = images.shape[0] and the three other arrays have T rows
consistent(images, states, actions, forces) ==
  /\ Len(states) = Len(images)
  /\ Len(actions) = Len(images)
  /\ Len(forces) = Len(images)

\* process_forceumi_episode with skip_frames = 0, lines 321-393: whether the
\* episode was processed, and the frames it added to the dataset
process_forceumi_episode(f) ==
  LET loaded == load_forceumi_episode(f)
  IN  IF loaded = None THEN [ok |-> FALSE, frames |-> <<>>]
      ELSE LET images == Val(loaded).images
               states == Val(loaded).states
               forces == Val(loaded).forces
               actions == compute_delta_actions(states)
           IN  IF ~consistent(images, states, actions, forces)
               THEN [ok |-> FALSE, frames |-> <<>>]
               ELSE [ok |-> TRUE,
                     frames |-> [t \in 1..Len(images) |->
                                   [action |-> actions[t], state |-> states[t],
                                    effort |-> forces[t], image |-> images[t]]]]

\* lines 528 and 557-576, one episode file after the other: the episodes
\* saved to the dataset after the first n of the paths found
RECURSIVE convert_episodes(_, _, _)
convert_episodes(fs, found, n) ==
  IF n = 0 THEN <<>>
  ELSE LET before == convert_episodes(fs, found, n - 1)
           r == process_forceumi_episode(Val(fs[found[n]]))
       IN  IF r.ok
           THEN Append(before, [path |-> found[n], frames |-> r.frames])
           ELSE before

\* convert_forceumi_to_lerobot, lines 433-598, with parallel_episodes = 1:
\* nothing to do without episode files; the image size is read from the first
\* file, f['image'][0], outside any try (a file without an image dataset
\* raises KeyError and the conversion ends there); then every file is
\* processed in turn
convert_forceumi_to_lerobot(fs) ==
  LET found == find_forceumi_episodes(fs, MaxFiles)
  IN  IF found = <<>> THEN [raised |-> FALSE, episodes |-> <<>>]
      ELSE IF Val(fs[found[1]]).image = None
      THEN [raised |-> TRUE, episodes |-> <<>>]
      ELSE [raised |-> FALSE, episodes |-> convert_episodes(fs, found, Len(found))]

\* an episode was recorded earlier and saved as file f of the session
StoreEpisodeFile(filepath, f) ==
  /\ files[filepath] = None
  /\ files' = [files EXCEPT ![filepath] = Some(f)]
  /\ ret' = NoCall
  /\ UNCHANGED << now, current_episode, data_rest >>

\* the converter is run on the session directory
ConvertDataset ==
  /\ ret' = [op |-> "convert_forceumi_to_lerobot",
              value |-> Some(convert_forceumi_to_lerobot(files))]
  /\ UNCHANGED << now, current_episode, files, data_rest >>

ExportNext ==
  \/ \E filepath \in SessionPaths, f \in EpisodeFiles : StoreEpisodeFile(filepath, f)
  \/ ConvertDataset

ExportSpec == Init /\ [][ExportNext]_vars

\* -------------------------------------------------- transforms, called alone
\* poses handed to the transforms: positions, angles in quarter turns (with
\* the pitches of gimbal lock), and gripper values of which the last is a
\* whole number that float32 cannot hold
PoseArgs ==
  { << x, y, z, roll, pitch, yaw, gripper >> :
      x \in { -1, 2 }, y \in { 3 }, z \in { 1 },
      roll \in 0..1, pitch \in -1..2, yaw \in -1..0,
      gripper \in { 1, Float32Exact + 1 } }

\* reference poses other than the pose itself
ReferenceArgs == { << 0, 0, 0, 0, 0, 0, 0 >>, << 1, 2, 0, 0, 0, 1, 1 >> }

\* relative_pose(pose, reference_pose) is called
RelativePose(pose, reference_pose) ==
  /\ ret' = [op |-> "relative_pose",
              value |-> Some([pose |-> pose, reference_pose |-> reference_pose,
                              result |-> relative_pose(pose, reference_pose, TRUE)])]
  /\ UNCHANGED << now, current_episode, files, data_rest >>

TransformNext ==
  \E pose \in PoseArgs :
    \E reference_pose \in ReferenceArgs \cup { pose } :
      RelativePose(pose, reference_pose)

TransformSpec == Init /\ [][TransformNext]_vars

\* ------------------------------------------ frame rotations, called alone
\* poses handed to the frame rotations: every quarter-turn value of the three
\* angles, and a gripper value that only float64 holds
RotateArgs ==
  { << x, y, z, roll, pitch, yaw, gripper >> :
      x \in { 2 }, y \in { 3 }, z \in { 1 },
      roll \in -1..2, pitch \in -1..2, yaw \in -1..2,
      gripper \in { 1, Float32Exact + 1 } }

\* rotate_frame_z_90_cw(pose), rotate_frame_z_90_ccw(pose) and
\* rotate_frame_z_90_ccw(rotate_frame_z_90_cw(pose)) are computed
RotateFrame(pose) ==
  /\ ret' = [op |-> "rotate_frame",
              value |-> Some([pose |-> pose,
                              cw |-> rotate_frame_z_90_cw(pose, TRUE),
                              ccw |-> rotate_frame_z_90_ccw(pose, TRUE),
                              back |-> rotate_frame_z_90_ccw(
                                         rotate_frame_z_90_cw(pose, TRUE), TRUE)])]
  /\ UNCHANGED << now, current_episode, files, data_rest >>

RotateNext == \E pose \in RotateArgs : RotateFrame(pose)

RotateSpec == Init /\ [][RotateNext]_vars

\* ------------------------------------------------- a player without frames
\* files in which _load_episode finds no image, state or force dataset: what
\* save_episode writes for an Episode whose cycles obtained nothing (the loop
\* timestamps alone), or an empty file.  A missing file leaves the player as
\* the empty file does.
NoDataFiles ==
  { [image |-> None, state |-> None, action |-> None, force |-> None,
     timestamp |-> ts, fps |-> fps] :
      ts \in { None, Some(<< 0 >>), Some(<< 0, 2 >>) }, fps \in FpsAttrs }

\* a player constructed on such a file: total_frames = 0
EmptyInit ==
  /\ CollectorInit
  /\ connected.camera
  /\ player \in { _load_episode(f) : f \in NoDataFiles }
  /\ configs = None

EmptySpec == EmptyInit /\ [][PlayerNext]_vars

\* ------------------------------------------------- saves whose write can fail
\* how the write of save_episode ends: the file is written; an exception is
\* raised before h5py.File has created the file; or an exception is raised
\* inside the `with h5py.File(filepath, "w")` block (an attribute value h5py
\* cannot store, a full disk), after the file was created
WriteOutcomes == { "written", "raises_before", "raises_after" }

\* the file left behind by a write that raised while storing the attributes
PartialFile(data) ==
  [FileOf(data) EXCEPT !.attrs = [episode_number |-> None, num_frames |-> None]]

\* HDF5Manager.save_episode(filepath, data, overwrite=False) with the outcome
\* of its write: the except clause returns False and removes nothing
save_episode_io(fs, filepath, data, outcome) ==
  IF fs[filepath] # None
  THEN [files |-> fs, ok |-> FALSE]
  ELSE CASE outcome = "written" ->
              [files |-> [fs EXCEPT ![filepath] = Some(FileOf(data))], ok |-> TRUE]
         [] outcome = "raises_before" ->
              [files |-> fs, ok |-> FALSE]
         [] outcome = "raises_after" ->
              [files |-> [fs EXCEPT ![filepath] = Some(PartialFile(data))], ok |-> FALSE]

\* the body of save_current_episode(filepath=None), collector.py:217-246, with
\* the outcome of the write
SaveBodyIO(ep, fb, outcome) ==
  LET fin == ep.end_time = None
      ep1 == IF fin THEN finalize(ep, now) ELSE ep
      filepath == IF _session_dir = None THEN -1 ELSE _episode_counter
      r == save_episode_io(files, filepath, to_dict(ep1), outcome)
  IN  [episode |-> ep1,
       finalized_by |-> IF fin THEN Append(fb, "save") ELSE fb,
       files |-> r.files,
       counter |-> IF r.ok THEN _episode_counter + 1 ELSE _episode_counter,
       value |-> IF r.ok THEN Some(filepath) ELSE None]

\* stop_episode, collector.py:190-203, with save enabled: join returns,
\* finalize, save_current_episode with the outcome of the write
stop_episode_saving(outcome) ==
  /\ callback_log' = <<>>
  /\ UNCHANGED << player, configs >>
  /\ mpc = "join"
  /\ JoinReturns
  /\ (IF stop_save # None THEN Val(stop_save) ELSE auto_save)
  /\ LET b == SaveBodyIO(finalize(Val(current_episode), now),
                         Append(finalized_by, "stop"), outcome)
     IN  /\ current_episode' = Some(b.episode)
         /\ finalized_by' = b.finalized_by
         /\ files' = b.files
         /\ _episode_counter' = b.counter
         /\ ret' = [op |-> "stop_episode", value |-> b.value]
  /\ mpc' = "idle"
  /\ stop_save' = None
  /\ UNCHANGED << now, connected, _collecting, _warming_up, _warmup_start_time,
                  _collection_thread, _stop_event, _reference_pose, _data_queue,
                  _session_dir, pc, local, cycles, failures, last_put >>

\* episodes of one session started and stopped with auto_save
SaveNext ==
  \/ Tick
  \/ start_episode
  \/ stop_episode_begin(None)
  \/ \E outcome \in WriteOutcomes : stop_episode_saving(outcome)
  \/ \E w \in Workers : loop_top(w)
  \/ \E w \in Workers : camera_read(w, Some("img"))
  \/ \E w \in Workers, pose \in States \ { None } : pose_read(w, pose)
  \/ \E w \in Workers : set_reference(w)
  \/ \E w \in Workers : force_read(w, Some("f"))
  \/ \E w \in Workers : loop_finish(w)

SaveSpec == Init /\ [][SaveNext]_vars

\* ------------------------------------------------------ devices, by themselves
\* Camera, PoseSensor and ForceSensor; `connected` holds their _connected flags
DeviceNames == { "camera", "pose", "force" }

\* how the body of connect() ends: the handle is opened; the open is refused
\* (cap.isOpened() is False, the tracker device is not found, sensor.connect()
\* or start_stream() returns False, the driver package is missing); or an
\* exception is raised and caught
ConnectOutcomes == { "opened", "refused", "raised" }

\* connect(), camera.py:41-66 (pose_sensor.py:44-88 and force_sensor.py:46-96
\* have the same shape): the flags afterwards and the value returned.
\* _connected is assigned on the successful path only.
connect(c, d, outcome) ==
  IF outcome = "opened"
  THEN [connected |-> [c EXCEPT ![d] = TRUE], value |-> TRUE]
  ELSE [connected |-> c, value |-> FALSE]

\* how the body of disconnect() ends
DisconnectOutcomes == { "released", "raised" }

\* disconnect(), camera.py:68-86 (pose_sensor.py:90-111,
\* force_sensor.py:98-120)
disconnect(c, d, outcome) ==
  IF outcome = "released"
  THEN [connected |-> [c EXCEPT ![d] = FALSE], value |-> TRUE]
  ELSE [connected |-> c, value |-> FALSE]

\* what the driver does in read(): returns data, returns nothing, or raises
ReadOutcomes == { "data", "nothing", "raised" }

\* read(), camera.py:88-112 (pose_sensor.py:113-145, force_sensor.py:122-145):
\* the value returned, and whether an exception leaves the call
read(c, d, outcome) ==
  IF ~ c[d] THEN [value |-> None, raises |-> FALSE]
  ELSE IF outcome = "data" THEN [value |-> Some("data"), raises |-> FALSE]
  ELSE [value |-> None, raises |-> FALSE]

\* everything but the device flags and ret
device_rest ==
  << now, _collecting, _warming_up, _warmup_start_time, _collection_thread,
     _stop_event, _reference_pose, _data_queue, _session_dir, _episode_counter,
     current_episode, files, pc, local, mpc, stop_save, cycles, failures,
     last_put, finalized_by, callback_log, player, configs >>

DeviceConnect(d, outcome) ==
  /\ connected' = connect(connected, d, outcome).connected
  /\ ret' = [op |-> "connect",
              value |-> Some([device |-> d, was_connected |-> connected[d],
                              result |-> connect(connected, d, outcome).value])]
  /\ UNCHANGED device_rest

DeviceDisconnect(d, outcome) ==
  /\ connected' = disconnect(connected, d, outcome).connected
  /\ ret' = [op |-> "disconnect",
              value |-> Some([device |-> d, was_connected |-> connected[d],
                              result |-> disconnect(connected, d, outcome).value])]
  /\ UNCHANGED device_rest

DeviceRead(d, outcome) ==
  /\ ret' = [op |-> "read",
              value |-> Some([device |-> d, was_connected |-> connected[d],
                              result |-> read(connected, d, outcome)])]
  /\ UNCHANGED << connected, device_rest >>

DeviceNext ==
  \/ \E d \in DeviceNames, outcome \in ConnectOutcomes : DeviceConnect(d, outcome)
  \/ \E d \in DeviceNames, outcome \in DisconnectOutcomes : DeviceDisconnect(d, outcome)
  \/ \E d \in DeviceNames, outcome \in ReadOutcomes : DeviceRead(d, outcome)

DeviceSpec == Init /\ [][DeviceNext]_vars

\* ---------------------------------------------------- Config, by itself
\* Config instances constructed
MaxConfigs == 2

\* keys given to get and set, split at the dots: nested keys of the defaults,
\* a nested key that is new, and a top-level key
KeyArgs ==
  { << "devices", "camera", "width" >>, << "collector", "max_fps" >>,
    << "new", "nested" >>, << "top" >> }

ValueArgs == { 1280 }

\* everything but configs and ret
config_rest ==
  << now, connected, _collecting, _warming_up, _warmup_start_time,
     _collection_thread, _stop_event, _reference_pose, _data_queue,
     _session_dir, _episode_counter, current_episode, files, pc, local, mpc,
     stop_save, cycles, failures, last_put, finalized_by, callback_log,
     player >>

\* Config()
NewConfig ==
  /\ Len(configs.instances) < MaxConfigs
  /\ configs' = Config_init(configs)
  /\ ret' = [op |-> "Config", value |-> Some(Len(configs.instances) + 1)]
  /\ UNCHANGED config_rest

\* instance i: set(key, value)
ConfigSet(i, key, value) ==
  /\ i <= Len(configs.instances)
  /\ configs' = [configs EXCEPT
                   !.heap = Config_set(@, configs.instances[i], key, value)]
  /\ ret' = [op |-> "set",
              value |-> Some([instance |-> i, key |-> key, value |-> value])]
  /\ UNCHANGED config_rest

\* instance i: get(key)
ConfigGet(i, key) ==
  /\ i <= Len(configs.instances)
  /\ ret' = [op |-> "get",
              value |-> Some([instance |-> i, key |-> key,
                              result |-> Config_get(configs.heap,
                                                    configs.instances[i], key)])]
  /\ UNCHANGED << configs, config_rest >>

ConfigNext ==
  \/ NewConfig
  \/ \E i \in 1..MaxConfigs, key \in KeyArgs, value \in ValueArgs :
       ConfigSet(i, key, value)
  \/ \E i \in 1..MaxConfigs, key \in KeyArgs : ConfigGet(i, key)

\* config.py has been imported: DEFAULT_CONFIG exists, no Config instance yet
ConfigInit == CollectorInit /\ player = None /\ configs = ImportedConfigs

ConfigSpec == ConfigInit /\ [][ConfigNext]_vars

\* ------------------------------------------------------------------ claims
Ep == Val(current_episode)
Zero6(gripper) == << 0, 0, 0, 0, 0, 0, gripper >>

\* C1: a frame produced while an earlier one is pending replaces it, so what
\* get_latest_frame() returns is always the frame produced last
C1_LatestIsNewest ==
  (ret.op = "get_latest_frame" /\ ret.value # None)
    => Val(ret.value).cycle = last_put

\* C2: at most one thread is ever inside _collection_loop
C2_SingleWorker == Cardinality(Running) <= 1

\* C3: once the Episode is finalized no frame is appended to it, so the
\* num_frames of its summary metadata equals len(episode)
C3_FinalizedFrozen ==
  (current_episode # None /\ Ep.end_time # None)
    => Ep.metadata.num_frames = Some(EpLen(Ep))

\* C4: finalize() runs at most once per episode, and once the episode has
\* been stopped it has run exactly once, called by stop_episode
C4_FinalizeOnceByStop ==
  /\ Len(finalized_by) <= 1
  /\ (current_episode # None /\ ~_collecting /\ mpc = "idle")
       => finalized_by = << "stop" >>

\* C5: while warming up the Episode is empty and the reference pose unset,
\* and every frame of the Episode comes from a cycle that began after the
\* warm-up had elapsed
C5_WarmupDiscipline ==
  current_episode # None =>
    /\ _warming_up => (EpLen(Ep) = 0 /\ _reference_pose = None)
    /\ \A i \in 1..EpLen(Ep) :
         Ep.timestamps[i] >= Val(_warmup_start_time) + WarmupDuration

\* C6: the action derived for the reading that becomes the reference pose is
\* the zero delta with that reading's absolute gripper value
C6_FirstActionZero ==
  [][\A w \in Workers :
       (pc[w] = "set_reference" /\ pc'[w] # "set_reference")
         => local'[w].frame_data.action =
              Some(Zero6(Val(local[w].frame_data.state)[7]))]_vars

\* C7: once set, the reference pose changes only through the next successful
\* start_episode
C7_ReferenceImmutable ==
  [][_reference_pose # None =>
       \/ _reference_pose' = _reference_pose
       \/ ret' = [op |-> "start_episode", value |-> Some(TRUE)]]_vars

\* a device read of thread w returns in this step
Returns(w, at) == pc[w] = at /\ pc'[w] # at

\* C8: each modality's timestamp is the time at which its read() returned
C8_StampAtReturn ==
  [][\A w \in Workers :
       /\ (Returns(w, "cam_read") /\ local'[w].frame_data.image # None)
            => local'[w].frame_data.timestamp_camera = Some(now)
       /\ (Returns(w, "pose_read") /\ local'[w].frame_data.state # None)
            => local'[w].frame_data.timestamp_pose = Some(now)
       /\ (Returns(w, "force_read") /\ local'[w].frame_data.force # None)
            => local'[w].frame_data.timestamp_force = Some(now)]_vars

\* C8 as amended: the pose and force timestamps are the times at which their
\* read() returned; the camera timestamp is the time at which camera.read()
\* was called, so it is never later than the return of that read
C8_StampAmended ==
  [][\A w \in Workers :
       /\ (pc[w] = "top" /\ pc'[w] = "cam_read")
            => local'[w].timestamp_camera = Some(now)
       /\ (Returns(w, "cam_read") /\ local'[w].frame_data.image # None)
            => /\ local'[w].frame_data.timestamp_camera = local[w].timestamp_camera
               /\ Val(local[w].timestamp_camera) <= now
       /\ (Returns(w, "pose_read") /\ local'[w].frame_data.state # None)
            => local'[w].frame_data.timestamp_pose = Some(now)
       /\ (Returns(w, "force_read") /\ local'[w].frame_data.force # None)
            => local'[w].frame_data.timestamp_force = Some(now)]_vars

\* a cycle whose camera read took time: the camera stamp is older than the
\* pose and force stamps, which are the current time
C8_Witness ==
  \E w \in Workers :
    LET fd == local[w].frame_data
    IN  /\ pc[w] = "finish"
        /\ fd.image # None /\ fd.state # None /\ fd.force # None
        /\ Val(fd.timestamp_camera) < now
        /\ fd.timestamp_pose = Some(now)
        /\ fd.timestamp_force = Some(now)

\* everything but ret
state == << now, connected, _collecting, _warming_up, _warmup_start_time,
            _collection_thread, _stop_event, _reference_pose, _data_queue,
            _session_dir, _episode_counter, current_episode, files, pc, local,
            mpc, stop_save, cycles, failures, last_put, finalized_by >>

\* C9: start_episode during an active episode returns False and changes
\* nothing; stop_episode while idle returns None and changes nothing (no
\* finalize, no save)
C9_MisuseIsNoOp ==
  [][/\ (ret'.op = "start_episode" /\ _collecting)
          => (ret'.value = Some(FALSE) /\ UNCHANGED state)
     /\ (ret'.op = "stop_episode" /\ mpc = "idle" /\ ~_collecting)
          => (ret'.value = None /\ UNCHANGED state)]_vars

\* start_episode was just rejected during warm-up, with a thread running
C9_Witness ==
  /\ ret = [op |-> "start_episode", value |-> Some(FALSE)]
  /\ _collecting /\ _warming_up
  /\ Running # {}

\* C10: a cycle that ends after warm-up with at least one modality appends
\* exactly one frame to the Episode whatever the queue holds, and the end of a
\* cycle (append and put_nowait) can always be taken: the thread never waits
\* for a consumer
C10_LosslessAppend ==
  /\ [](\A w \in Workers : pc[w] = "finish" => ENABLED loop_finish(w))
  /\ [][\A w \in Workers :
          (pc[w] = "finish" /\ pc'[w] = "top"
             /\ NonEmpty(local[w].frame_data) /\ ~_warming_up)
            => /\ EpLen(Val(current_episode')) = EpLen(Ep) + 1
               /\ last_put' = local[w].cycle]_vars

\* two frames were appended after warm-up while the queue still holds the
\* first one: nobody pulled, the second put found the queue full
C10_Witness ==
  /\ current_episode # None
  /\ EpLen(Ep) = 2
  /\ Len(_data_queue) = 1
  /\ _data_queue[1].cycle = 1
  /\ last_put = 2

\* C11: in every file written for a recorded episode, each of the image,
\* state, action and force datasets that was written is as long as the
\* timestamp dataset
C11_UniformLengths ==
  \A p \in Paths :
    files[p] # None =>
      LET f == Val(files[p])
      IN  /\ f.image # None => f.image = f.timestamp
          /\ f.state # None => f.state = f.timestamp
          /\ f.action # None => f.action = f.timestamp
          /\ f.force # None => f.force = f.timestamp

\* a sequence of numbers that never decreases
NonDecreasing(s) == \A i \in 1..(Len(s) - 1) : s[i] <= s[i + 1]

\* C13: each per-modality timestamp sequence of the Episode is non-decreasing
\* and no longer than the loop-timestamp sequence, and a step that appends a
\* frame adds at most one entry to each of them
C13_ModalityStamps ==
  /\ [](current_episode # None =>
          /\ NonDecreasing(Ep.timestamps_camera)
          /\ NonDecreasing(Ep.timestamps_pose)
          /\ NonDecreasing(Ep.timestamps_force)
          /\ Len(Ep.timestamps_camera) <= EpLen(Ep)
          /\ Len(Ep.timestamps_pose) <= EpLen(Ep)
          /\ Len(Ep.timestamps_force) <= EpLen(Ep))
  /\ [][(current_episode # None /\ current_episode' # None
           /\ EpLen(Val(current_episode')) = EpLen(Ep) + 1)
          => LET ep2 == Val(current_episode')
             IN  /\ Len(ep2.timestamps_camera) <= Len(Ep.timestamps_camera) + 1
                 /\ Len(ep2.timestamps_pose) <= Len(Ep.timestamps_pose) + 1
                 /\ Len(ep2.timestamps_force) <= Len(Ep.timestamps_force) + 1]_vars

\* C14: whichever callbacks raise on a frame, every registered callback is
\* invoked for it in registration order, the frame is appended to the
\* Episode (after warm-up) and offered to the queue, and the thread is back
\* at the top of the loop
C14_CallbacksContained ==
  [][\A w \in Workers :
       (pc[w] = "finish" /\ pc'[w] # "finish" /\ NonEmpty(local[w].frame_data))
         => /\ Len(callback_log') = Len(_frame_callbacks)
            /\ \A i \in 1..Len(_frame_callbacks) :
                  callback_log'[i].callback = _frame_callbacks[i]
            /\ ~_warming_up => EpLen(Val(current_episode')) = EpLen(Ep) + 1
            /\ Len(_data_queue) < QueueMaxsize =>
                  _data_queue'[Len(_data_queue')].cycle = local[w].cycle
            /\ pc'[w] = "top"]_vars

\* the first callback raised on a recorded frame, the second one was still
\* called, and the thread is at the top of the loop again
C14_Witness ==
  /\ Len(callback_log) = 2
  /\ callback_log[1].raised /\ ~callback_log[2].raised
  /\ current_episode # None /\ EpLen(Ep) >= 1
  /\ \E w \in Workers : pc[w] = "top"
  /\ Len(_data_queue) = 1 /\ _data_queue[1].cycle = last_put

\* s with the value of option o appended when there is one
Plus(s, o) == IF o # None THEN Append(s, Val(o)) ELSE s

\* C15: a read that returns nothing leaves the rest of the cycle's frame as
\* it was and the thread goes on to its next step; the frame the cycle
\* appends after warm-up carries exactly the modalities that were read, each
\* with its own timestamp, and an action only together with a pose
C15_ReadFailureLocal ==
  [][\A w \in Workers :
       LET fd == local[w].frame_data
           fd2 == local'[w].frame_data
       IN  /\ (Returns(w, "cam_read") /\ fd2.image = None)
                => (fd2 = fd /\ pc'[w] \in {"pose_read", "force_read", "finish"})
           /\ (Returns(w, "pose_read") /\ fd2.state = None)
                => (fd2 = fd /\ fd2.action = None
                    /\ pc'[w] \in {"force_read", "finish"})
           /\ (Returns(w, "force_read") /\ fd2.force = None)
                => (fd2 = fd /\ pc'[w] = "finish")
           /\ (pc[w] = "finish" /\ pc'[w] # "finish" /\ NonEmpty(fd) /\ ~_warming_up)
                => LET ep2 == Val(current_episode')
                   IN  /\ pc'[w] = "top"
                       /\ ep2.images = Plus(Ep.images, fd.image)
                       /\ ep2.timestamps_camera =
                            IF fd.image # None
                            THEN Append(Ep.timestamps_camera, Val(fd.timestamp_camera))
                            ELSE Ep.timestamps_camera
                       /\ ep2.states = Plus(Ep.states, fd.state)
                       /\ ep2.timestamps_pose =
                            IF fd.state # None
                            THEN Append(Ep.timestamps_pose, Val(fd.timestamp_pose))
                            ELSE Ep.timestamps_pose
                       /\ ep2.forces = Plus(Ep.forces, fd.force)
                       /\ ep2.timestamps_force =
                            IF fd.force # None
                            THEN Append(Ep.timestamps_force, Val(fd.timestamp_force))
                            ELSE Ep.timestamps_force
                       /\ ep2.actions = Plus(Ep.actions, fd.action)
                       /\ fd.state = None => fd.action = None]_vars

\* the pose read failed in the first recorded cycle only: that frame has the
\* image and the force, the next frame has all three again
C15_Witness ==
  /\ current_episode # None
  /\ EpLen(Ep) = 2
  /\ Len(Ep.images) = 2 /\ Len(Ep.forces) = 2
  /\ Ep.states = << Trajectory(2) >>
  /\ Len(Ep.timestamps_camera) = 2 /\ Len(Ep.timestamps_pose) = 1
  /\ failures = 1

\* C12: get_frame(i) returns every modality the file holds for poll cycle
\* i + 1 (the cycle of loop timestamp i), and every field it returns was
\* read in that cycle
C12_FrameAligned ==
  (ret.op = "get_frame" /\ ret.value # None) =>
    LET fd == Val(ret.value)
        cycle == fd.frame_idx + 1
        Holds(a) == a # None /\ \E i \in 1..Len(Val(a)) : Val(a)[i] = cycle
    IN  /\ Holds(player.images) => ("image" \in fd.keys /\ fd.image = Some(cycle))
        /\ Holds(player.states) => ("state" \in fd.keys /\ fd.state = Some(cycle))
        /\ Holds(player.actions) => ("action" \in fd.keys /\ fd.action = Some(cycle))
        /\ Holds(player.forces) => ("force" \in fd.keys /\ fd.force = Some(cycle))
        /\ (player.timestamps # None /\ cycle <= Len(Val(player.timestamps)))
              => /\ "timestamp" \in fd.keys
                 /\ fd.timestamp = Some(Val(player.timestamps)[cycle])
        /\ fd.image # None => fd.image = Some(cycle)
        /\ fd.state # None => fd.state = Some(cycle)
        /\ fd.action # None => fd.action = Some(cycle)
        /\ fd.force # None => fd.force = Some(cycle)

\* C16: a play-through with loop off, polled by update() while the clock
\* advances, ends paused at the last frame and stays there
C16_PlaysToEnd ==
  <>[](~player.is_playing /\ player.current_frame = player.total_frames - 1)

\* update() has just emitted the last of MaxFrames frames and paused there
C16_Witness ==
  /\ player.total_frames = MaxFrames
  /\ ~player.is_playing /\ ~player.loop
  /\ player.current_frame = MaxFrames - 1
  /\ ret.op = "update" /\ ret.value # None
  /\ Val(ret.value).frame_idx = MaxFrames - 1

\* C17: the index stays within 0 .. total_frames - 1 whatever is called, and
\* seek(f) sets it to f clamped into that range
C17_IndexInRange ==
  /\ [](0 <= player.current_frame /\ player.current_frame <= player.total_frames - 1)
  /\ [][\A f \in SeekArgs :
          Seek(f) => player'.current_frame =
                       IF f < 0 THEN 0
                       ELSE IF f > player.total_frames - 1 THEN player.total_frames - 1
                       ELSE f]_vars

\* a relative seek has just put a playing player on the last of MaxFrames
\* frames
C17_Witness ==
  /\ ret.op = "seek_relative"
  /\ player.is_playing
  /\ player.total_frames = MaxFrames
  /\ player.current_frame = MaxFrames - 1

\* the interval C18 names for the current frame: from the loop timestamps,
\* or 1/target_fps when there are none or the current frame is the last one,
\* divided by the speed
ClaimedInterval(p) ==
  IF p.timestamps # None /\ p.current_frame # p.total_frames - 1
  THEN ((Val(p.timestamps)[p.current_frame + 2]
           - Val(p.timestamps)[p.current_frame + 1]) * 10) \div p.playback_speed
  ELSE ((UnitsPerSecond \div p.target_fps) * 10) \div p.playback_speed

\* C18: while playing, update() emits the current frame and advances if the
\* time since the anchor is at least that interval, and otherwise returns
\* None and changes nothing
C18_EmitsWhenDue ==
  [][(Update /\ player.is_playing) =>
       IF now - player.last_frame_time >= ClaimedInterval(player)
       THEN /\ ret'.value # None
            /\ Val(ret'.value).frame_idx = player.current_frame
            /\ player'.current_frame =
                 IF player.current_frame + 1 < player.total_frames
                 THEN player.current_frame + 1
                 ELSE IF player.loop THEN 0 ELSE player.total_frames - 1
       ELSE ret'.value = None /\ player' = player]_vars

C20_LoopNeverPauses ==
  [][(Update /\ player.loop) =>
       /\ player'.is_playing = player.is_playing
       /\ (ret'.value # None /\ player.current_frame + 1 >= player.total_frames)
            => /\ player'.current_frame = 0
               /\ player'.last_frame_time = now
               /\ player'.is_playing]_vars

\* a looping player has just emitted the last of MaxFrames frames and is
\* playing at frame 0
C20_Witness ==
  /\ ret.op = "update" /\ ret.value # None
  /\ Val(ret.value).frame_idx = MaxFrames - 1
  /\ player.total_frames = MaxFrames
  /\ player.loop /\ player.is_playing
  /\ player.current_frame = 0
  /\ player.last_frame_time = now

\* C21: the playback speed always lies within 0.1 .. 10.0; set_speed stores
\* its argument clamped into that range (the lower end for an argument below
\* it, the upper end for one above it, the argument itself otherwise) and
\* changes neither the current frame nor the play state
C21_SpeedClamped ==
  /\ [](MinSpeed <= player.playback_speed /\ player.playback_speed <= MaxSpeed)
  /\ [][\A speed \in AnySpeedArgs :
          SetSpeed(speed) =>
            /\ player'.playback_speed =
                 IF speed < MinSpeed THEN MinSpeed
                 ELSE IF speed > MaxSpeed THEN MaxSpeed
                 ELSE speed
            /\ player'.current_frame = player.current_frame
            /\ player'.is_playing = player.is_playing]_vars

\* set_speed was just called with an argument above the range on a player
\* that is playing at its last frame: the speed is the upper end
C21_Witness ==
  /\ ret.op = "set_speed"
  /\ player.playback_speed = MaxSpeed
  /\ player.is_playing
  /\ player.total_frames = MaxFrames
  /\ player.current_frame = MaxFrames - 1

\* C22: save_episode with overwrite=False on a path that holds a file
\* returns False and leaves every file as it was
C22_NoOverwrite ==
  [][\A filepath \in DataPaths :
       (SaveEpisode(filepath, FALSE) /\ files[filepath] # None)
         => (ret'.value = Some(FALSE) /\ files' = files)]_vars

\* a save was just refused on a path whose file holds an earlier state of the
\* Episode: the file is not what the call would have written
C22_Witness ==
  /\ ret = [op |-> "save_episode", value |-> Some(FALSE)]
  /\ \E filepath \in DataPaths :
       /\ files[filepath] # None
       /\ files[filepath] # Some(H5File(to_dict(Ep)))
       /\ Val(files[filepath]).timestamp # None

\* C23: a file just saved from an Episode's to_dict() loads back with the
\* image, state, action, force and timestamp arrays exactly as recorded; an
\* image dataset exists in the file only if images were recorded; and loading
\* an existing file never fails: a main key without a dataset comes back as
\* an empty array
C23_RoundTrip ==
  /\ [][\A filepath \in DataPaths, overwrite \in BOOLEAN :
          (SaveEpisode(filepath, overwrite) /\ ret'.value = Some(TRUE))
            => LET loaded == load_episode(files', filepath)
               IN  /\ loaded # None
                   /\ Val(loaded).image = Ep.images
                   /\ Val(loaded).state = Ep.states
                   /\ Val(loaded).action = Ep.actions
                   /\ Val(loaded).force = Ep.forces
                   /\ Val(loaded).timestamp = Ep.timestamps
                   /\ (Val(files'[filepath]).image # None) <=> (Ep.images # <<>>)]_vars
  /\ [][\A filepath \in DataPaths :
          (LoadEpisode(filepath) /\ files[filepath] # None)
            => LET f == Val(files[filepath])
               IN  /\ ret'.value # None
                   /\ f.image = None => Val(ret'.value).image = <<>>
                   /\ f.state = None => Val(ret'.value).state = <<>>
                   /\ f.action = None => Val(ret'.value).action = <<>>
                   /\ f.force = None => Val(ret'.value).force = <<>>
                   /\ f.timestamp = None => Val(ret'.value).timestamp = <<>>]_vars

\* an Episode with no image, MaxAdds poses and MaxAdds forces was saved and
\* has just been loaded back: no image dataset in the file, an empty image
\* array and the poses and forces in the result
C23_Witness ==
  /\ ret.op = "load_episode" /\ ret.value # None
  /\ \E filepath \in DataPaths :
       /\ files[filepath] # None
       /\ Val(files[filepath]).image = None
       /\ ret.value = load_episode(files, filepath)
  /\ Val(ret.value).image = <<>>
  /\ Len(Val(ret.value).state) = MaxAdds
  /\ Len(Val(ret.value).force) = MaxAdds
  /\ Len(Val(ret.value).timestamp) = MaxAdds

\* C24: finalize() on an Episode that is already finalized leaves end_time
\* and the summary metadata as the first call set them
C24_FinalizeIdempotent ==
  [][(Finalize /\ Ep.end_time # None)
       => /\ Val(current_episode').end_time = Ep.end_time
          /\ Val(current_episode').metadata = Ep.metadata]_vars

\* frames in a dataset of a file: none when the dataset is absent
Size(dataset) == IF dataset = None THEN 0 ELSE Len(Val(dataset))

\* C27: in the Episode and in every file saved from it, each per-sensor
\* timestamp sequence is as long as its modality's data sequence, and a
\* per-sensor timestamp dataset in a file is never empty
C27_StampLengths ==
  /\ current_episode # None =>
       /\ Len(Ep.timestamps_camera) = Len(Ep.images)
       /\ Len(Ep.timestamps_pose) = Len(Ep.states)
       /\ Len(Ep.timestamps_force) = Len(Ep.forces)
  /\ \A filepath \in DataPaths :
       files[filepath] # None =>
         LET f == Val(files[filepath])
         IN  /\ Size(f.timestamp_camera) = Size(f.image)
             /\ Size(f.timestamp_pose) = Size(f.state)
             /\ Size(f.timestamp_force) = Size(f.force)
             /\ f.timestamp_camera # None => Size(f.timestamp_camera) > 0
             /\ f.timestamp_pose # None => Size(f.timestamp_pose) > 0
             /\ f.timestamp_force # None => Size(f.timestamp_force) > 0

\* a file saved from an Episode of MaxAdds frames of which only the first
\* has an image and only the last a pose: one camera timestamp and one pose
\* timestamp against MaxAdds loop timestamps
C27_Witness ==
  \E filepath \in DataPaths :
    /\ files[filepath] # None
    /\ Size(Val(files[filepath]).timestamp) = MaxAdds
    /\ Size(Val(files[filepath]).timestamp_camera) = 1
    /\ Val(files[filepath]).image = Some(<< 1 >>)
    /\ Size(Val(files[filepath]).timestamp_pose) = 1
    /\ Val(files[filepath]).state = Some(<< MaxAdds >>)
    /\ Size(Val(files[filepath]).timestamp_force) = MaxAdds

\* C28: len(episode) counts the add_frame calls made since the Episode was
\* created (it is 0 at creation, every add_frame call adds one whichever
\* modalities it carries, and no other call changes it), and finalize()
\* records that count as num_frames, with duration = end_time - start_time
\* and an fps entry
C28_LenCountsCalls ==
  [][/\ CreateEpisode => EpLen(Val(current_episode')) = 0
     /\ \A k \in FrameKinds, stamped \in BOOLEAN :
          AddFrame(k, stamped) => EpLen(Val(current_episode')) = EpLen(Ep) + 1
     /\ (current_episode # None /\ ret'.op # "add_frame")
          => EpLen(Val(current_episode')) = EpLen(Ep)
     /\ Finalize =>
          LET ep2 == Val(current_episode')
          IN  /\ ep2.end_time = Some(now)
              /\ ep2.metadata.num_frames = Some(EpLen(Ep))
              /\ ep2.metadata.duration = Some(now - Ep.start_time)
              /\ ep2.metadata.fps # None]_vars

\* finalize() was just called, a tick after creation, on an Episode of
\* MaxAdds frames of which one carried no modality at all
C28_Witness ==
  /\ ret.op = "finalize"
  /\ current_episode # None
  /\ EpLen(Ep) = MaxAdds
  /\ Ep.metadata.num_frames = Some(MaxAdds)
  /\ Len(Ep.images) = MaxAdds - 1
  /\ Len(Ep.states) = MaxAdds - 1
  /\ Len(Ep.forces) = MaxAdds - 1
  /\ Ep.metadata.duration = Some(1)

Stopped(w) ==
  /\ w \in Running
  /\ (_stop_event \/ _collection_thread # Some(w))

\* the positions of a cycle after its first step, and what may follow each
CyclePcs == ReadPcs \cup { "set_reference", "finish" }
Following(at) ==
  CASE at = "cam_read" -> { "pose_read", "force_read", "finish" }
    [] at = "pose_read" -> { "set_reference", "force_read", "finish" }
    [] at = "set_reference" -> { "force_read", "finish" }
    [] at = "force_read" -> { "finish" }
    [] at = "finish" -> { "top" }

\* C26: a thread leaves the loop only at its top and only with the stop flag
\* set; a cycle that has begun goes through all its steps whatever the flag
\* says, ending with the append, the put and the callbacks; and a thread
\* whose episode stop_episode has stopped begins no further cycle
C26_CooperativeCancel ==
  [][\A w \in Workers :
       /\ (pc[w] # "done" /\ pc'[w] = "done") => (pc[w] = "top" /\ _stop_event)
       /\ (pc[w] \in CyclePcs /\ pc'[w] # pc[w]) => pc'[w] \in Following(pc[w])
       /\ (pc[w] = "finish" /\ pc'[w] # "finish" /\ NonEmpty(local[w].frame_data))
            => /\ last_put' = local[w].cycle
               /\ Len(callback_log') = Len(_frame_callbacks)
               /\ ~_warming_up => EpLen(Val(current_episode')) = EpLen(Ep) + 1
       /\ (Stopped(w) /\ pc[w] = "top" /\ pc'[w] # "top") => pc'[w] = "done"]_vars

\* the image, state, action and force datasets of file f do not all have the
\* same number of frames
Mismatched(f) ==
  ~ /\ Size(f.state) = Size(f.image)
    /\ Size(f.action) = Size(f.image)
    /\ Size(f.force) = Size(f.image)

\* C29: after the converter has run on the session, no episode of the
\* dataset comes from a file with mismatched frame counts, and every other
\* file of the session is an episode of the dataset with all its frames, each
\* made of the image, action and force of one cycle
C29_MismatchSkipped ==
  ret.op = "convert_forceumi_to_lerobot" =>
    LET episodes == Val(ret.value).episodes
        From(filepath) == { i \in 1..Len(episodes) : episodes[i].path = filepath }
    IN  \A filepath \in SessionPaths :
          files[filepath] # None =>
            LET f == Val(files[filepath])
            IN  IF Mismatched(f)
                THEN From(filepath) = {}
                ELSE /\ Cardinality(From(filepath)) = 1
                     /\ \A i \in From(filepath) :
                          /\ Len(episodes[i].frames) = Size(f.image)
                          /\ \A t \in 1..Len(episodes[i].frames) :
                               LET frame == episodes[i].frames[t]
                               IN  /\ frame.image = t
                                   /\ frame.state = t
                                   /\ frame.effort = t

\* C30: relative_pose(p, p) has its six position and orientation components
\* equal to zero and its 7th component equal to p's gripper value
C30_IdentityIsZero ==
  (ret.op = "relative_pose"
     /\ Val(ret.value).pose = Val(ret.value).reference_pose)
    => LET p == Val(ret.value).pose
           result == Val(ret.value).result
       IN  /\ Len(result) = 7
           /\ \A i \in 1..6 : result[i] = 0
           /\ result[7] = p[7]

\* C30 as amended: relative_pose(p, p) has its six position and orientation
\* components equal to zero and its 7th component equal to p's gripper value
\* converted to float32, which is p's gripper value itself whenever float32
\* can hold it
C30_IdentityAmended ==
  (ret.op = "relative_pose"
     /\ Val(ret.value).pose = Val(ret.value).reference_pose)
    => LET p == Val(ret.value).pose
           result == Val(ret.value).result
       IN  /\ Len(result) = 7
           /\ \A i \in 1..6 : result[i] = 0
           /\ result[7] = Float32(p[7])
           /\ (-Float32Exact <= p[7] /\ p[7] <= Float32Exact) => result[7] = p[7]
           /\ result[7] - p[7] \in { -1, 0, 1 }

\* relative_pose(p, p) was called on a pose that is away from the origin, in
\* gimbal lock and has a gripper value float32 cannot hold
C30_Witness ==
  /\ ret.op = "relative_pose"
  /\ Val(ret.value).pose = Val(ret.value).reference_pose
  /\ Val(ret.value).pose[1] # 0
  /\ Val(ret.value).pose[5] = 1
  /\ Val(ret.value).pose[7] = Float32Exact + 1
  /\ Val(ret.value).result[7] = Float32Exact

\* C31: rotate_frame_z_90_ccw(rotate_frame_z_90_cw(p)) reproduces p for any
\* pose p, the position under (x,y)->(y,-x) and (x,y)->(-y,x), and z and the
\* gripper are untouched by each function
C31_RotationsInverse ==
  ret.op = "rotate_frame"
    => LET r == Val(ret.value)
           p == r.pose
       IN  /\ r.back = p
           /\ r.cw[1] = p[2] /\ r.cw[2] = -p[1]
           /\ r.ccw[1] = -p[2] /\ r.ccw[2] = p[1]
           /\ r.cw[3] = p[3] /\ r.cw[7] = p[7]
           /\ r.ccw[3] = p[3] /\ r.ccw[7] = p[7]

\* the Euler angles of p are ones matrix_to_euler returns: pitch strictly
\* inside a quarter turn with roll and yaw in (-pi, pi], or pitch at a
\* quarter turn (gimbal lock) with yaw 0
CanonicalAngles(p) ==
  /\ p[4] \in -1..2
  /\ \/ p[5] = 0 /\ p[6] \in -1..2
     \/ p[5] \in { -1, 1 } /\ p[6] = 0

\* C31 as amended: for any pose p the round trip reproduces the position, z
\* and the gripper of p and the rotation matrix of p's angles, each function
\* maps the position as stated and leaves z and the gripper untouched; the
\* angles themselves are reproduced when they are ones matrix_to_euler returns
C31_RotationsAmended ==
  ret.op = "rotate_frame"
    => LET r == Val(ret.value)
           p == r.pose
       IN  /\ SubSeq(r.back, 1, 3) = SubSeq(p, 1, 3)
           /\ r.back[7] = p[7]
           /\ euler_to_matrix(r.back[4], r.back[5], r.back[6])
                = euler_to_matrix(p[4], p[5], p[6])
           /\ CanonicalAngles(p) => r.back = p
           /\ r.cw[1] = p[2] /\ r.cw[2] = -p[1]
           /\ r.ccw[1] = -p[2] /\ r.ccw[2] = p[1]
           /\ r.cw[3] = p[3] /\ r.cw[7] = p[7]
           /\ r.ccw[3] = p[3] /\ r.ccw[7] = p[7]

\* the round trip was computed for a pose in gimbal lock with a turned roll
\* and for which both rotations change the angles
C31_Witness ==
  /\ ret.op = "rotate_frame"
  /\ CanonicalAngles(Val(ret.value).pose)
  /\ Val(ret.value).pose[5] = 1
  /\ Val(ret.value).pose[4] = 2
  /\ Val(ret.value).cw # Val(ret.value).pose
  /\ Val(ret.value).back = Val(ret.value).pose

\* C32: whenever the collector is Idle (is_collecting() is false),
\* is_warming_up() is false as well, also after stop_episode was called while
\* the episode was still in warm-up (observed between the calls of the main
\* thread, once stop_episode has returned)
C32_IdleNotWarmingUp == (mpc = "idle" /\ ~ _collecting) => (~ _warming_up)

\* a step in which update() returns a frame
Emission == ret'.op = "update" /\ ret'.value # None

\* C33: in a play-through started by play() at frame 0 with loop off and no
\* seek, the frames update() returns carry frame_idx 0, 1, ..., N-1 in that
\* order, each once: a returned frame is the one that was current before the
\* call, the index then advances by one (or, on the last frame, the player
\* pauses), the index moves in no other step, and a paused player returns
\* nothing more
C33_EmitsInOrder ==
  /\ player.current_frame = 0 /\ player.is_playing /\ ~ player.loop
  /\ [][/\ Emission =>
             /\ player.is_playing
             /\ Val(ret'.value).frame_idx = player.current_frame
             /\ IF player.current_frame < player.total_frames - 1
                THEN /\ player'.current_frame = player.current_frame + 1
                     /\ player'.is_playing
                ELSE /\ player'.current_frame = player.total_frames - 1
                     /\ ~ player'.is_playing
        /\ (~ Emission) =>
             /\ player'.current_frame = player.current_frame
             /\ player'.is_playing = player.is_playing
        /\ (~ player.is_playing) => (~ Emission /\ player' = player)]_vars

\* update() has returned the last frame of a recording of MaxFrames frames and
\* the player is paused
C33_Witness ==
  /\ ret.op = "update"
  /\ ret.value # None
  /\ player.total_frames = MaxFrames
  /\ Val(ret.value).frame_idx = MaxFrames - 1
  /\ ~ player.is_playing
  /\ player.current_frame = MaxFrames - 1

\* C34: for a player whose episode failed to load or contains no data
\* (total_frames = 0), current_frame never becomes negative
C34_IndexNotNegative == player.total_frames = 0 => player.current_frame >= 0

\* C35: every file written under the default path as episodeN.hdf5 carries
\* the metadata attribute episode_number = N
C35_NumberMatchesName ==
  \A n \in 0..(MaxFiles - 1) :
    files[n] # None => Val(files[n]).attrs.episode_number = Some(n)

\* C36: a failed save of one episode does not prevent later episodes of the
\* session from being saved: between the calls, the default path of the next
\* save is free, so that a later episode stopped with save enabled is written
\* unless its own write fails
C36_LaterSavePossible ==
  (mpc = "idle" /\ _session_dir # None /\ _episode_counter < MaxFiles)
    => files[_episode_counter] = None

\* only one thread has ever run _collection_loop
SingleWorker == \A w \in Workers : pc[w] # "none" => w = 1

\* C37: in any Episode populated by the collection loop with a single worker
\* the number of stored actions equals the number of stored states, which is
\* also the number of pose timestamps
C37_ActionPerState ==
  (SingleWorker /\ current_episode # None)
    => /\ Len(Val(current_episode).actions) = Len(Val(current_episode).states)
       /\ Len(Val(current_episode).timestamps_pose) = Len(Val(current_episode).states)

\* a single worker has stored two poses with their actions in an episode
\* during which some device read returned nothing
C37_Witness ==
  /\ SingleWorker
  /\ current_episode # None
  /\ Len(Val(current_episode).states) = 2
  /\ Len(Val(current_episode).actions) = 2
  /\ failures > 0

\* C38: for each device, whenever connect() returns False, is_connected() is
\* False afterwards (also when the device had been connected before);
\* after disconnect() returns True, is_connected() is False; and read() on a
\* device that is not connected returns nothing without raising
C38_DeviceContract ==
  /\ ret.op = "connect" =>
       (~ Val(ret.value).result => ~ connected[Val(ret.value).device])
  /\ ret.op = "disconnect" =>
       (Val(ret.value).result => ~ connected[Val(ret.value).device])
  /\ ret.op = "read" =>
       (~ Val(ret.value).was_connected =>
          (Val(ret.value).result.value = None /\ ~ Val(ret.value).result.raises))

\* C39: Config instances are isolated: a set(key, value) on one instance,
\* also on a nested key, changes neither what get returns on another
\* instance nor the defaults a Config constructed afterwards starts from
C39_InstancesIsolated ==
  [][ret'.op = "set" =>
       /\ \A j \in 1..Len(configs.instances), key \in KeyArgs :
            j # Val(ret'.value).instance =>
              Config_get(configs'.heap, configs.instances[j], key)
                = Config_get(configs.heap, configs.instances[j], key)
       /\ \A key \in KeyArgs :
            Config_get(configs'.heap, DEFAULT_CONFIG, key)
              = Config_get(configs.heap, DEFAULT_CONFIG, key)]_vars

====
